---- MODULE Spec2Model ----
(***************************************************************************)
(* Model of the Enabl agent router (src/lambda/agent-router/agent_router.py)*)
(* and of the text extraction of the specialist containers                 *)
(* (src/docker/*-python/agent.py).                                         *)
(*                                                                         *)
(* Python strings are TLA+ strings; str.lower, the `in' substring test,    *)
(* str.split and the regular expressions are computed character by         *)
(* character.  JSON values are tagged records [t |-> type, v |-> value].   *)
(***************************************************************************)
EXTENDS Integers, Sequences, FiniteSets, TLC

(***************************************************************************)
(* Python string primitives                                                *)
(***************************************************************************)
Uppers == "ABCDEFGHIJKLMNOPQRSTUVWXYZ"
Lowers == "abcdefghijklmnopqrstuvwxyz"
Digits == "0123456789"

CharAt(s, i) == SubSeq(s, i, i)

IsOneOf(c, alphabet) == \E i \in 1..Len(alphabet) : CharAt(alphabet, i) = c

IsUpper(c) == IsOneOf(c, Uppers)

\* \s of the re module, restricted to the whitespace the inputs use
IsSpace(c) == c = " " \/ c = "\n" \/ c = "\t"

\* \w of the re module
IsWordChar(c) == IsOneOf(c, Lowers) \/ IsOneOf(c, Uppers) \/ IsOneOf(c, Digits) \/ c = "_"

LowerChar(c) ==
    IF IsUpper(c)
    THEN CharAt(Lowers, CHOOSE i \in 1..Len(Uppers) : CharAt(Uppers, i) = c)
    ELSE c

RECURSIVE LowerFrom(_, _)
LowerFrom(s, i) == IF i > Len(s) THEN "" ELSE LowerChar(CharAt(s, i)) \o LowerFrom(s, i + 1)

\* str.lower()
Lower(s) == LowerFrom(s, 1)

\* str.strip()
Strip(s) ==
    IF \A i \in 1..Len(s) : IsSpace(CharAt(s, i))
    THEN ""
    ELSE LET first == CHOOSE i \in 1..Len(s) :
                         /\ ~IsSpace(CharAt(s, i))
                         /\ \A j \in 1..(i - 1) : IsSpace(CharAt(s, j))
             last  == CHOOSE i \in 1..Len(s) :
                         /\ ~IsSpace(CharAt(s, i))
                         /\ \A j \in (i + 1)..Len(s) : IsSpace(CharAt(s, j))
         IN  SubSeq(s, first, last)

\* `sub in s' for strings
Contains(sub, s) ==
    \E i \in 1..(Len(s) - Len(sub) + 1) : SubSeq(s, i, i + Len(sub) - 1) = sub

\* any(k in s for k in keys), keys a sequence of strings
ContainsAny(keys, s) == \E k \in 1..Len(keys) : Contains(keys[k], s)

\* len(s.split()): the number of maximal runs of non-whitespace
WordCount(s) ==
    Cardinality({i \in 1..Len(s) :
                    /\ ~IsSpace(CharAt(s, i))
                    /\ (i = 1 \/ IsSpace(CharAt(s, i - 1)))})

\* s.startswith(prefix)
StartsWith(s, prefix) == Len(s) >= Len(prefix) /\ SubSeq(s, 1, Len(prefix)) = prefix

\* the None of Python, and the test `not x' for a string or None
PyNone == "<None>"
Falsy(x) == x = PyNone \/ x = ""

(***************************************************************************)
(* Static tables                                                           *)
(***************************************************************************)
HEALTH      == "health-assistant"
APPOINTMENT == "appointment-agent"
COMMUNITY   == "community-agent"
DOCUMENT    == "document-agent"
KNOWLEDGE   == "knowledge-agent"

\* the keys of AGENT_KEYWORDS in insertion order
AgentOrder == <<HEALTH, APPOINTMENT, COMMUNITY, DOCUMENT, KNOWLEDGE>>

AGENT_RUNTIME_ARNS ==
    [a \in {HEALTH, APPOINTMENT, COMMUNITY, DOCUMENT, KNOWLEDGE} |->
        CASE a = HEALTH      -> "775525057465.dkr.ecr.us-east-1.amazonaws.com/enabl-health-assistant-python:latest"
          [] a = APPOINTMENT -> "775525057465.dkr.ecr.us-east-1.amazonaws.com/enabl-appointment-agent-python:latest"
          [] a = COMMUNITY   -> "775525057465.dkr.ecr.us-east-1.amazonaws.com/enabl-community-agent-python:latest"
          [] a = DOCUMENT    -> "arn:aws:bedrock-agentcore:us-east-1:775525057465:runtime/enabl_document_agent-pending"
          [] a = KNOWLEDGE   -> "enabl-knowledge-agent-lambda"]

Agents == DOMAIN AGENT_RUNTIME_ARNS

AGENT_KEYWORDS ==
    [a \in Agents |->
        CASE a = HEALTH ->
               <<"symptom", "symptoms", "pain", "fever", "headache", "nausea", "fatigue",
                 "health", "wellness", "medical", "diagnosis", "treatment", "medication",
                 "doctor", "physician", "nurse", "hospital", "clinic", "emergency",
                 "sick", "illness", "disease", "condition", "feel", "feeling">>
          [] a = APPOINTMENT ->
               <<"appointment", "schedule", "calendar", "book", "booking", "reschedule",
                 "cancel", "reminder", "notification", "availability", "available",
                 "doctor visit", "checkup", "follow-up", "meeting", "consultation",
                 "time", "date", "when", "tomorrow", "today", "next week">>
          [] a = COMMUNITY ->
               <<"research", "study", "studies", "article", "news", "community",
                 "forum", "discussion", "share", "experience", "others", "people",
                 "evidence", "scientific", "clinical", "trial", "publication",
                 "latest", "new", "recent", "update", "trend", "insight">>
          [] a = DOCUMENT ->
               <<"document", "report", "file", "upload", "analyze", "analysis",
                 "medical record", "lab result", "test result", "scan", "x-ray",
                 "blood work", "biopsy", "pathology", "interpretation", "review",
                 "pdf", "image", "attachment", "chart", "history">>
          [] a = KNOWLEDGE ->
               <<"knowledge", "guideline", "policy", "regulation", "compliance", "audit",
                 "regional", "country", "australia", "ndis", "practice standards", "quality indicators",
                 "requirements", "checklist", "documents needed", "what do i need",
                 "classify", "classification", "categorize", "categories", "organize", "group",
                 "structure", "taxonomy">>]

\* sum(1 for kw in keywords if kw in ml)
KeywordScore(keywords, ml) ==
    Cardinality({k \in 1..Len(keywords) : Contains(keywords[k], ml)})

(***************************************************************************)
(* Regular expressions of the document helpers.  A pattern is a sequence   *)
(* of literal words separated by \s+, optionally closed by \b; re.search   *)
(* tries every start position.                                             *)
(***************************************************************************)
LiteralAt(m, i, w) == i + Len(w) - 1 <= Len(m) /\ SubSeq(m, i, i + Len(w) - 1) = w

\* the position after the run of whitespace starting at i (i itself when there is none)
RECURSIVE SkipSpaces(_, _)
SkipSpaces(m, i) == IF i <= Len(m) /\ IsSpace(CharAt(m, i)) THEN SkipSpaces(m, i + 1) ELSE i

\* \b after a word character: end of text or a non-word character
BoundaryAt(m, i) == i > Len(m) \/ ~IsWordChar(CharAt(m, i))

RECURSIVE MatchWordsAt(_, _, _, _)
MatchWordsAt(m, i, words, wb) ==
    /\ LiteralAt(m, i, words[1])
    /\ LET j == i + Len(words[1])
       IN  IF Len(words) = 1
           THEN wb => BoundaryAt(m, j)
           ELSE /\ SkipSpaces(m, j) > j
                /\ MatchWordsAt(m, SkipSpaces(m, j), Tail(words), wb)

Search(m, words, wb) == \E i \in 1..Len(m) : MatchWordsAt(m, i, words, wb)

RecipientPattern(m) ==
    \/ Search(m, <<"who", "is", "this", "document", "for">>, TRUE)
    \/ Search(m, <<"who", "is", "the", "document", "for">>, TRUE)
    \/ Search(m, <<"for", "whom">>, TRUE)
    \/ Search(m, <<"for", "who">>, TRUE)
    \/ Search(m, <<"who", "is", "it", "for">>, TRUE)

IssuerPattern(m) ==
    \/ \E v \in {"issued", "created", "made", "authored"} : Search(m, <<"who", v>>, TRUE)
    \/ Search(m, <<"issuer">>, FALSE)
    \/ Search(m, <<"issuing", "party">>, FALSE)

SignatoryPattern(m) ==
    \/ \E v \in {"signed", "signature"} : Search(m, <<"who", v>>, TRUE)
    \/ Search(m, <<"signatory">>, FALSE)

DatePattern(m) ==
    \/ Search(m, <<"when">>, TRUE)
    \/ Search(m, <<"date">>, TRUE)
    \/ Search(m, <<"what", "date">>, FALSE)

detect_document_qa_intent(message) ==
    IF message = "" THEN PyNone
    ELSE LET m == Lower(message)
         IN  IF RecipientPattern(m) THEN "recipient"
             ELSE IF IssuerPattern(m) THEN "issuer"
             ELSE IF SignatoryPattern(m) THEN "signatory"
             ELSE IF DatePattern(m) THEN "date"
             ELSE PyNone

RecipientGuidance ==
    "Identify the recipient/subject the document is about (the person/participant it is for). "
    \o "Do NOT answer with the organization or issuer name."
    \o " "
    \o "Prefer names near fields like 'Participant', 'Participant Name', 'Client', 'Consumer', or in signing blocks labelled for the participant."
    \o " "
    \o "Return a concise answer: the person's full name only, and a very short evidence snippet (<= 100 chars)."

IssuerGuidance ==
    "Identify the organization or entity that issued/created the document."
    \o " "
    \o "Return the organization name and a short evidence snippet."

SignatoryGuidance ==
    "Identify the person who signed the document (signatory). Return the name and short evidence snippet."

DateGuidance ==
    "Identify the document date (issue or effective date). Return the date value and short evidence snippet."

\* the same with the guidance put in front of the question
rewrite_document_question_guidanceFirst(original, intent) ==
    IF Falsy(intent) THEN original
    ELSE LET guidance == CASE intent = "recipient" -> RecipientGuidance
                           [] intent = "issuer"    -> IssuerGuidance
                           [] intent = "signatory" -> SignatoryGuidance
                           [] intent = "date"      -> DateGuidance
                           [] OTHER                -> ""
             preamble == "STRICT INSTRUCTIONS: " \o guidance
                         \o "\nIf multiple candidates, choose the best match for the requested role."
         IN  preamble \o "\n\n" \o original

\* lines 127-158
rewrite_document_question(original, intent) ==
    IF Falsy(intent) THEN original
    ELSE LET guidance == CASE intent = "recipient" -> RecipientGuidance
                           [] intent = "issuer"    -> IssuerGuidance
                           [] intent = "signatory" -> SignatoryGuidance
                           [] intent = "date"      -> DateGuidance
                           [] OTHER                -> ""
             preamble == "STRICT INSTRUCTIONS: " \o guidance
                         \o "\nIf multiple candidates, choose the best match for the requested role."
         IN  original \o "\n\n" \o preamble

ListingVerbs == <<"list", "show", "name", "what", "which", "display", "give", "see", "view", "all">>
ListingNouns == <<"doc", "docs", "document", "documents", "file", "files", "upload", "uploads", "history">>

is_document_listing_intent(message) ==
    IF message = "" THEN FALSE
    ELSE LET m == Lower(message)
         IN  \/ /\ ContainsAny(ListingVerbs, m)
                /\ ContainsAny(ListingNouns, m)
                /\ (Contains("my ", m) \/ Contains(" i uploaded", m) \/ Contains("uploaded", m))
             \/ Contains("list my documents", m)
             \/ Contains("show my documents", m)
             \/ Contains("list my files", m)

OrgKeywords ==
    <<" pty ", " pty. ", " ltd", " limited", " inc", " llc", " company", " pty ltd", " pty. ltd", " proprietary">>

\* re.findall(r"[A-Z]{4,}", t) is non-empty
HasCapsToken(t) ==
    \E i \in 1..(Len(t) - 3) : \A j \in i..(i + 3) : IsUpper(CharAt(t, j))

looks_like_org(answer_text) ==
    IF answer_text = "" THEN FALSE
    ELSE LET t  == Strip(answer_text)
             tl == Lower(t)
         IN  ContainsAny(OrgKeywords, tl) \/ HasCapsToken(t)

(***************************************************************************)
(* Python dicts with string keys are functions; JSON values met where the  *)
(* code tests their type are tagged records [t |-> type, v |-> value].     *)
(***************************************************************************)
EmptyDict == [k \in {} |-> ""]

\* d.get(k)
Get(d, k) == IF k \in DOMAIN d THEN d[k] ELSE PyNone

\* {**a, **b}: the keys of b win
Merge(a, b) == b @@ a

\* {k: v for k, v in d.items() if k not in ['response']}
WithoutResponse(d) == [k \in DOMAIN d \ {"response"} |-> d[k]]

JObj(d)  == [t |-> "obj",  v |-> d]
JStr(x)  == [t |-> "str",  v |-> x]
JList(x) == [t |-> "list", v |-> x]
JNum(n)  == [t |-> "num",  v |-> n]

\* `k in j': "T", "F", or "raise" (TypeError) by the type of j
PyIn(k, j) ==
    CASE j.t = "obj"  -> IF k \in DOMAIN j.v THEN "T" ELSE "F"
      [] j.t = "str"  -> IF Contains(k, j.v) THEN "T" ELSE "F"
      [] j.t = "list" -> IF \E i \in 1..Len(j.v) : j.v[i].t = "str" /\ j.v[i].v = k THEN "T" ELSE "F"
      [] OTHER        -> "raise"

\* j[k] is defined: j is an object holding k
HasItem(j, k) == j.t = "obj" /\ k \in DOMAIN j.v

(***************************************************************************)
(* Text extraction from an Amazon Nova payload: the if/elif chain shared   *)
(* by invoke_foundation_model_direct, invoke_foundation_model and the      *)
(* get_*_response functions of the specialists.  The outcome is            *)
(*   [k |-> "ret", v |-> text]   a return statement was reached,           *)
(*   [k |-> "unexpected"]        the final else branch was reached,        *)
(*   [k |-> "fall"]              the chain ended without a return,         *)
(*   [k |-> "raise"]             an exception was raised.                  *)
(* out.raise says that invoke_model or json.loads raised.                  *)
(***************************************************************************)
Ret(x) == [k |-> "ret", v |-> x]
Other(kind) == [k |-> kind, v |-> ""]

ExtractChain(out) ==
    IF out.raise THEN Other("raise")
    ELSE LET rb == out.body
             inOutput == PyIn("output", rb)
         IN  IF inOutput = "raise" THEN Other("raise")
             ELSE IF inOutput = "T" /\ rb.t # "obj" THEN Other("raise")
             ELSE IF inOutput = "T" /\ rb.t = "obj" /\ PyIn("message", rb.v["output"]) = "raise"
                  THEN Other("raise")
             ELSE IF inOutput = "T" /\ rb.t = "obj" /\ PyIn("message", rb.v["output"]) = "T"
                  THEN \* content = response_body['output']['message']['content']
                       IF ~HasItem(rb.v["output"], "message") THEN Other("raise")
                       ELSE IF ~HasItem(rb.v["output"].v["message"], "content") THEN Other("raise")
                       ELSE LET content == rb.v["output"].v["message"].v["content"]
                            IN  IF content.t = "list" /\ Len(content.v) > 0
                                THEN IF HasItem(content.v[1], "text")
                                     THEN Ret(content.v[1].v["text"].v)
                                     ELSE Other("raise")
                                ELSE IF content.t = "str" THEN Ret(content.v)
                                ELSE Other("fall")
             ELSE IF PyIn("outputText", rb) = "T" /\ rb.t = "obj"
                  THEN Ret(rb.v["outputText"].v)
             ELSE Other("unexpected")

APOLOGY      == "I apologize, but I'm unable to process your request at the moment. Please try again later."
FORMAT_ISSUE == "I provided a response, but there was an issue formatting it. Please try again."

\* the text invoke_foundation_model_direct returns
DirectSafetyNet == ""

DirectText(out) ==
    LET e == ExtractChain(out)
    IN  CASE e.k = "ret"        -> e.v
          [] e.k = "unexpected" -> FORMAT_ISSUE
          [] e.k = "fall"       -> DirectSafetyNet
          [] OTHER              -> APOLOGY

\* invoke_foundation_model: ai_response is preset to FORMAT_ISSUE; raised is
\* TRUE when the except branch returned (the turn is then not saved)
FoundationText(out) ==
    LET e == ExtractChain(out)
    IN  CASE e.k = "ret"   -> [raised |-> FALSE, text |-> e.v]
          [] e.k = "raise" -> [raised |-> TRUE,  text |-> APOLOGY]
          [] OTHER         -> [raised |-> FALSE, text |-> FORMAT_ISSUE]

SpecialistClarify ==
    [a \in {HEALTH, APPOINTMENT, COMMUNITY} |->
        CASE a = HEALTH      -> "I'm here to help with your health questions. Could you please rephrase your question?"
          [] a = APPOINTMENT -> "I'm here to help you with appointment scheduling. Could you please clarify what type of appointment you need?"
          [] a = COMMUNITY   -> "I'm here to help you find health and wellness content. Could you please specify what type of information you're looking for?"]

SpecialistApology ==
    [a \in {HEALTH, APPOINTMENT, COMMUNITY} |->
        CASE a = HEALTH      -> "I apologize, but I'm unable to process your health question at the moment. Please try again or consult a healthcare professional if urgent."
          [] a = APPOINTMENT -> "I apologize, but I'm unable to process your appointment request at the moment. Please try again or contact your healthcare provider directly."
          [] a = COMMUNITY   -> "I apologize, but I'm unable to process your community request at the moment. Please try again or check our health resource library."]

\* get_health_response / get_appointment_response / get_community_response:
\* a chain that ends without a return makes the function return None
SpecialistText(a, out) ==
    LET e == ExtractChain(out)
    IN  CASE e.k = "ret"        -> e.v
          [] e.k = "unexpected" -> SpecialistClarify[a]
          [] e.k = "fall"       -> PyNone
          [] OTHER              -> SpecialistApology[a]

(***************************************************************************)
(* The conversation table.  An item is keyed by (session_id, message_id);  *)
(* message_id is f"{session_id}#{timestamp}", modelled as the pair.        *)
(* The clock counts ticks; TicksPerSecond of them make one second.         *)
(***************************************************************************)
TicksPerSecond == 2
TTL_SECONDS    == 604800

Seconds(t) == t \div TicksPerSecond

\* lines 567-582, and the same item with the offset of the ttl left out
Item_ttlNow(session_id, user_id, role, content, agent_type, now) ==
    [session_id |-> session_id,
     message_id |-> <<session_id, now>>,
     user_id    |-> user_id,
     role       |-> role,
     content    |-> content,
     timestamp  |-> now,
     ttl        |-> Seconds(now),
     agent_type |-> IF Falsy(agent_type) THEN PyNone ELSE agent_type]
Item(session_id, user_id, role, content, agent_type, now) ==
    [session_id |-> session_id,
     message_id |-> <<session_id, now>>,
     user_id    |-> user_id,
     role       |-> role,
     content    |-> content,
     timestamp  |-> now,
     ttl        |-> Seconds(now) + TTL_SECONDS,
     \* item['agent_type'] is set only `if agent_type'
     agent_type |-> IF Falsy(agent_type) THEN PyNone ELSE agent_type]

\* table.put_item: an item with the same key is replaced
PutItem(table, item) ==
    {it \in table : ~(it.session_id = item.session_id /\ it.message_id = item.message_id)}
        \cup {item}

\* the items of a set in ascending timestamp order
RECURSIVE SortByTimestamp(_)
SortByTimestamp(items) ==
    IF items = {} THEN <<>>
    ELSE LET first == CHOOSE it \in items :
                         \A other \in items : it.timestamp <= other.timestamp
         IN  <<first>> \o SortByTimestamp(items \ {first})

\* the most recent max_messages items of the table, without the key condition
QueryRecent_anySession(table, session_id, max_messages) ==
    {it \in table :
        Cardinality({later \in table : later.timestamp > it.timestamp}) < max_messages}

\* table.query(session_id, ScanIndexForward=False, Limit=max_messages):
\* the max_messages items of the session with the greatest sort key
QueryRecent(table, session_id, max_messages) ==
    LET mine == {it \in table : it.session_id = session_id}
    IN  {it \in mine :
            Cardinality({later \in mine : later.timestamp > it.timestamp}) < max_messages}

\* get_conversation_history; ok = FALSE when the store raises.  Before it,
\* the same function answering from the table although the query raised
get_conversation_history_noExcept(table, session_id, user_id, max_messages, ok) ==
    SortByTimestamp(QueryRecent(table, session_id, max_messages))
get_conversation_history(table, session_id, user_id, max_messages, ok) ==
    IF ok THEN SortByTimestamp(QueryRecent(table, session_id, max_messages)) ELSE <<>>

\* build_conversation_context applied to the history it fetched
RECURSIVE RenderHistory(_, _)
RenderHistory(history, i) ==
    IF i > Len(history) THEN ""
    ELSE LET msg     == history[i]
             role    == IF msg.role = "user" THEN "User" ELSE "Assistant"
             content == IF Len(msg.content) > 200
                        THEN SubSeq(msg.content, 1, 200) \o "..."
                        ELSE msg.content
         IN  "\n" \o role \o ": " \o content \o RenderHistory(history, i + 1)

\* lines 590-617, and before them the same function rendering history[:6]
build_conversation_context_first6(history, current_message) ==
    IF Len(history) = 0 THEN current_message
    ELSE LET first == SubSeq(history, 1, IF Len(history) > 6 THEN 6 ELSE Len(history))
         IN  "Previous conversation:" \o RenderHistory(first, 1)
                 \o "\n" \o "\nCurrent message:\nUser: " \o current_message
build_conversation_context(history, current_message) ==
    IF Len(history) = 0 THEN current_message
    ELSE LET from == IF Len(history) > 6 THEN Len(history) - 5 ELSE 1
         IN  "Previous conversation:" \o RenderHistory(history, from)
                 \o "\n" \o "\nCurrent message:\nUser: " \o current_message

(***************************************************************************)
(* select_agent                                                            *)
(***************************************************************************)
ContinuationKeywords ==
    <<"yes", "no", "ok", "sure", "that works", "sounds good", "perfect", "great">>

\* lines 633-642: the explicit hint decides, no history is read
ExplicitDecides(explicit_agent) == ~Falsy(explicit_agent) /\ explicit_agent \in Agents

\* the cross-check of lines 634-641 applied to every hint, not only document-agent
ExplicitDecision_crossAll(message, explicit_agent) ==
    LET ml == Lower(message)
        knowledge_score == KeywordScore(AGENT_KEYWORDS[KNOWLEDGE], ml)
        document_score  == KeywordScore(AGENT_KEYWORDS[DOCUMENT], ml)
    IN  IF knowledge_score > document_score THEN KNOWLEDGE ELSE explicit_agent
ExplicitDecision(message, explicit_agent) ==
    IF explicit_agent = DOCUMENT
    THEN LET ml == Lower(message)
             knowledge_score == KeywordScore(AGENT_KEYWORDS[KNOWLEDGE], ml)
             document_score  == KeywordScore(AGENT_KEYWORDS[DOCUMENT], ml)
         IN  IF knowledge_score > document_score THEN KNOWLEDGE ELSE explicit_agent
    ELSE explicit_agent

\* lines 648-653: the agent_type of the last assistant message that has one
LastAgent(history) ==
    LET tagged == {i \in 1..Len(history) :
                      history[i].role = "assistant" /\ history[i].agent_type # PyNone}
    IN  IF tagged = {} THEN PyNone
        ELSE history[CHOOSE i \in tagged : \A j \in tagged : j <= i].agent_type

is_continuation(message) == ContainsAny(ContinuationKeywords, Strip(Lower(message)))

\* line 660, and the same test with the comparison off by one
is_short_response_strict(message) == WordCount(message) < 5
is_short_response(message) == WordCount(message) <= 5

\* the same keeping the last maximum
KeywordRouting_lastMax(message) ==
    LET message_lower == Strip(Lower(message))
        score(a) == KeywordScore(AGENT_KEYWORDS[a], message_lower)
        best == CHOOSE i \in 1..Len(AgentOrder) :
                    /\ \A j \in 1..Len(AgentOrder) : score(AgentOrder[j]) <= score(AgentOrder[i])
                    /\ \A j \in (i + 1)..Len(AgentOrder) : score(AgentOrder[j]) < score(AgentOrder[i])
    IN  IF score(AgentOrder[best]) > 0 THEN AgentOrder[best] ELSE HEALTH

\* lines 667-680: max(scores.keys(), key=...) keeps the first maximum
KeywordRouting(message) ==
    LET message_lower == Strip(Lower(message))
        score(a) == KeywordScore(AGENT_KEYWORDS[a], message_lower)
        best == CHOOSE i \in 1..Len(AgentOrder) :
                    /\ \A j \in 1..Len(AgentOrder) : score(AgentOrder[j]) <= score(AgentOrder[i])
                    /\ \A j \in 1..(i - 1) : score(AgentOrder[j]) < score(AgentOrder[i])
    IN  IF score(AgentOrder[best]) > 0 THEN AgentOrder[best] ELSE HEALTH

\* lines 644-680, given the history get_conversation_history returned
SelectFromHistory(message, history) ==
    LET last_agent == LastAgent(history)
    IN  IF /\ ~Falsy(last_agent)
           /\ (is_continuation(message) \/ is_short_response(message))
           /\ last_agent \in Agents
        THEN last_agent
        ELSE KeywordRouting(message)

(***************************************************************************)
(* Inputs and outcomes of the environment                                  *)
(***************************************************************************)
Procs == {1}

Messages ==
    {"",
     "sure",
     "i feel sick",
     "what did my doctor say",
     "I need to schedule a dentist appointment tomorrow",
     "ok please book the next available checkup slot",
     "latest research news",
     "Who is this document for?",
     "audit report",
     "ndis compliance audit",
     "show my compliance audit documents",
     "tell me a story about cats and dogs"}

Hints == {PyNone, HEALTH, APPOINTMENT, COMMUNITY, DOCUMENT, KNOWLEDGE, "unknown-agent"}

\* event['body']: the key is absent, the value is null, is not JSON, is JSON
\* but not an object, or is a JSON object
MalformedBodies == {"null", "garbage", "nondict"}

Event(kind, message, userId, sessionId, agentType) ==
    [body |-> kind, message |-> message, userId |-> userId,
     sessionId |-> sessionId, agentType |-> agentType]

Events ==
    {Event("absent", PyNone, PyNone, PyNone, PyNone)}
    \cup {Event(k, PyNone, PyNone, PyNone, PyNone) : k \in MalformedBodies}
    \cup {Event("object", m, "u1", "s1", h) : m \in Messages \cup {PyNone}, h \in Hints}
    \cup {Event("object", m, PyNone, PyNone, PyNone) : m \in Messages \cup {PyNone}}

\* what bedrock_runtime.invoke_model and json.loads of its body produce
NovaBody(content) == JObj([output |-> JObj([message |-> JObj([content |-> content])])])

ModelOutcomes ==
    << [raise |-> TRUE,  body |-> JObj(EmptyDict)],
       [raise |-> FALSE, body |-> NovaBody(JList(<<JObj([text |-> JStr("model answer")])>>))],
       [raise |-> FALSE, body |-> NovaBody(JStr("plain answer"))],
       [raise |-> FALSE, body |-> NovaBody(JList(<<>>))],
       [raise |-> FALSE, body |-> NovaBody(JNum(7))],
       [raise |-> FALSE, body |-> NovaBody(JList(<<JObj([image |-> JStr("png")])>>))],
       [raise |-> FALSE, body |-> JObj([outputText |-> JStr("flat answer")])],
       [raise |-> FALSE, body |-> JObj([completion |-> JStr("other answer")])],
       [raise |-> FALSE, body |-> JObj([output |-> JObj([stopReason |-> JStr("end_turn")])])],
       [raise |-> FALSE, body |-> JObj([output |-> JObj([message |-> JObj(EmptyDict)])])] >>

\* the payloads whose shape carries an answer text
WellFormed(out) == ExtractChain(out).k = "ret"

\* what lambda_client.invoke returns: it raises, or its Payload is absent,
\* not JSON, JSON but not an object, or an object with the fields top and
\* possibly a 'body' string that is not JSON, not an object, or the object inner
Reply(raise, payload, top, body, inner) ==
    [raise |-> raise, payload |-> payload, top |-> top, body |-> body, inner |-> inner]

BackendReplies ==
    << Reply(TRUE,  "absent",  EmptyDict, "absent", EmptyDict),
       Reply(FALSE, "absent",  EmptyDict, "absent", EmptyDict),
       Reply(FALSE, "garbage", EmptyDict, "absent", EmptyDict),
       Reply(FALSE, "nondict", EmptyDict, "absent", EmptyDict),
       Reply(FALSE, "dict", [errorMessage |-> "Task timed out after 3.00 seconds"], "absent", EmptyDict),
       Reply(FALSE, "dict", [statusCode |-> "200"], "garbage", EmptyDict),
       Reply(FALSE, "dict", [statusCode |-> "200"], "nondict", EmptyDict),
       Reply(FALSE, "dict", [statusCode |-> "200"], "dict", EmptyDict),
       Reply(FALSE, "dict", [statusCode |-> "200"], "dict", [response |-> "Jane Citizen"]),
       Reply(FALSE, "dict", [statusCode |-> "200"], "dict", [response |-> "Acme Pty Ltd", documents |-> "2"]),
       Reply(FALSE, "dict", [statusCode |-> "200"], "dict", [response |-> "NDIS plan of Jane Citizen"]) >>

\* replies whose body uses the names of the fields of the router's envelope.
\* Spec, SpecSeq and SpecConc draw their replies from BackendReplies, whose
\* bodies use other names; SpecPassThrough draws these.
PassThroughReplies ==
    << Reply(FALSE, "dict", [statusCode |-> "200"], "dict",
             [response |-> "Jane Citizen", agent |-> "node-document-agent",
              sessionId |-> "backend-session", source |-> "backend", timestamp |-> "T0"]),
       Reply(FALSE, "dict", [statusCode |-> "200"], "dict",
             [response |-> "Jane Citizen", agent |-> HEALTH]) >>

\* what lambda_client.invoke can return: the replies above, by index
AllReplies == BackendReplies \o PassThroughReplies

\* json.loads(raw) and json.loads(result['body']) with their except branches
\* (lines 229-243): body_obj, and whether it is a dict
ParseReply(reply) ==
    LET result == CASE reply.payload = "dict" ->
                         IF reply.body = "absent" THEN reply.top
                         ELSE Merge(reply.top, [body |-> "<" \o reply.body \o ">"])
                    [] OTHER -> EmptyDict
    IN  IF reply.payload = "nondict" THEN [isDict |-> FALSE, d |-> EmptyDict]
        ELSE IF "body" \in DOMAIN result
             THEN CASE reply.body = "dict"    -> [isDict |-> TRUE,  d |-> reply.inner]
                    [] reply.body = "nondict" -> [isDict |-> FALSE, d |-> EmptyDict]
                    [] OTHER                  -> [isDict |-> TRUE,  d |-> result]
             ELSE [isDict |-> TRUE, d |-> result]

\* a reply that json could not parse at one of the two levels
Unparsable(reply) ==
    ~reply.raise /\ (reply.payload = "garbage" \/ (reply.payload = "dict" /\ reply.body = "garbage"))

(***************************************************************************)
(* State                                                                   *)
(***************************************************************************)
VARIABLES
    store,                \* the items of the conversation table
    clock,                \* datetime.now(), in ticks
    AGENTCORE_AVAILABLE,  \* set when the module is loaded (lines 35-42)
    req,                  \* per invocation of lambda_handler: its locals
    agentOut              \* the response of a specialist container's handler

vars == <<store, clock, AGENTCORE_AVAILABLE, req, agentOut>>

NoEnvelope == [statusCode |-> 0, body |-> EmptyDict]

Envelope(status, body) == [statusCode |-> status, body |-> body]

IdleReq ==
    [pc |-> "idle", body |-> "absent",
     message |-> PyNone, user_id |-> PyNone, session_id |-> PyNone, agent_type |-> PyNone,
     selected_agent |-> PyNone, path |-> "none",
     history |-> <<>>, read_ok |-> FALSE, context |-> "",
     qa_intent |-> PyNone, first_answer |-> PyNone, response_text |-> PyNone,
     body_obj |-> EmptyDict,
     primary |-> 0, fallback |-> 0, reply1 |-> 0, reply2 |-> 0,
     reads |-> 0, writes |-> 0, saved |-> {}, doc_calls |-> 0, know_calls |-> 0,
     primary_calls |-> 0, fallback_calls |-> 0,
     now |-> 0, before |-> {},
     result |-> NoEnvelope]

NoAgentOut == [agent |-> PyNone, outcome |-> 0, statusCode |-> 0, response |-> PyNone]

Timestamp(now) == "T" \o ToString(now)

\* the histories a table holds when a request arrives: turns written by
\* earlier requests, some of them with the assistant message missing
\* because its put_item failed
MaxUserOnly == 4

Turn(session_id, user_id, agent, now) ==
    {Item(session_id, user_id, "user", "i feel sick", PyNone, now),
     Item(session_id, user_id, "assistant", "model answer", agent, now + 1)}

UserOnly(session_id, user_id, from, n) ==
    {Item(session_id, user_id, "user", "i feel sick", PyNone, t) : t \in from..(from + n - 1)}

EarlierStores ==
    {{}}
    \cup {Turn("s1", "u1", a, 1) : a \in Agents}
    \cup {Turn("s1", "u1", COMMUNITY, 1) \cup UserOnly("s1", "u1", 3, n) : n \in 1..MaxUserOnly}
    \cup {Turn("s1", "u1", COMMUNITY, 1) \cup Turn("s1", "u1", APPOINTMENT, 3)}
    \cup {Turn("s2", "u1", COMMUNITY, 1)}

\* the clock when the request arrives, after every earlier write
StartClock == MaxUserOnly + 3

Init ==
    /\ store \in EarlierStores
    /\ clock = StartClock
    /\ AGENTCORE_AVAILABLE \in BOOLEAN
    /\ req = [p \in Procs |-> IdleReq]
    /\ agentOut = NoAgentOut

(***************************************************************************)
(* lambda_handler, one action per downstream call                          *)
(***************************************************************************)
Set(p, r) == req' = [req EXCEPT ![p] = r]

\* lines 956-974 and the except branch 1012-1025
ParseEvent(p, ev) ==
    /\ req[p].pc = "idle"
    /\ IF ev.body \in MalformedBodies
       THEN Set(p, [req[p] EXCEPT
                !.pc = "done", !.body = ev.body,
                !.result = Envelope(500, [error |-> "Internal server error",
                                          message |-> "Failed to process agent request"])])
       ELSE LET user_id    == IF ev.userId = PyNone THEN "anonymous" ELSE ev.userId
                session_id == IF ev.sessionId = PyNone
                              THEN "session-" \o ToString(Seconds(clock))
                              ELSE ev.sessionId
                r == [req[p] EXCEPT !.body = ev.body, !.message = ev.message,
                                    !.user_id = user_id, !.session_id = session_id,
                                    !.agent_type = ev.agentType]
            IN  IF Falsy(ev.message)
                THEN Set(p, [r EXCEPT !.pc = "done",
                                      !.result = Envelope(400, [error |-> "Message is required"])])
                ELSE Set(p, [r EXCEPT !.pc = "select"])
    /\ UNCHANGED <<store, clock, AGENTCORE_AVAILABLE, agentOut>>

\* lines 983-991 and 696-705: where the handler goes with the decision
Dispatch(message, selected_agent) ==
    IF selected_agent = DOCUMENT \/ is_document_listing_intent(message) THEN "document"
    ELSE IF selected_agent = KNOWLEDGE THEN "knowledge"
    ELSE IF AGENTCORE_AVAILABLE /\ selected_agent \in Agents THEN "agentcore"
    ELSE "foundation"

\* line 977: select_agent, with its read of the history when it makes one
SelectAgent(p, ok) ==
    /\ req[p].pc = "select"
    /\ LET r == req[p]
           explicit == ExplicitDecides(r.agent_type)
           history  == IF explicit THEN <<>>
                       ELSE get_conversation_history(store, r.session_id, r.user_id, 4, ok)
           selected == IF explicit THEN ExplicitDecision(r.message, r.agent_type)
                       ELSE SelectFromHistory(r.message, history)
           path     == Dispatch(r.message, selected)
       IN  /\ explicit => ok
           /\ Set(p, [r EXCEPT !.pc = path, !.path = path,
                               !.selected_agent = selected,
                               !.history = history, !.read_ok = ~explicit /\ ok,
                               !.reads = IF explicit THEN @ ELSE @ + 1])
    /\ UNCHANGED <<store, clock, AGENTCORE_AVAILABLE, agentOut>>

\* the except branches 319-336 and 402-417
DOC_FALLBACK_TEXT  == "I had trouble accessing the document service. Please try again shortly."
KNOW_FALLBACK_TEXT == "I had trouble accessing the knowledge service. Please try again shortly."

DocFallbackEnvelope(r, now) ==
    Envelope(200, [response |-> DOC_FALLBACK_TEXT, agent |-> DOCUMENT,
                   sessionId |-> r.session_id, timestamp |-> Timestamp(now),
                   source |-> "fallback", agentcore_available |-> "false"])

KnowFallbackEnvelope(r, now) ==
    Envelope(200, [response |-> KNOW_FALLBACK_TEXT, agent |-> KNOWLEDGE,
                   sessionId |-> r.session_id, timestamp |-> Timestamp(now),
                   source |-> "fallback"])

\* the document envelope carrying the answer of the first call
DocEnvelope_firstAnswer(r, now) ==
    Envelope(200, Merge([response |-> r.first_answer, agent |-> DOCUMENT,
                         sessionId |-> r.session_id, timestamp |-> Timestamp(now),
                         source |-> "document-agent-lambda", agentcore_available |-> "false"],
                        WithoutResponse(r.body_obj)))

\* lines 302-318 and 387-401: the fields of the backend's body come last
DocEnvelope(r, now) ==
    Envelope(200, Merge([response |-> r.response_text, agent |-> DOCUMENT,
                         sessionId |-> r.session_id, timestamp |-> Timestamp(now),
                         source |-> "document-agent-lambda", agentcore_available |-> "false"],
                        WithoutResponse(r.body_obj)))

KnowEnvelope(r, now) ==
    Envelope(200, Merge([response |-> r.response_text, agent |-> KNOWLEDGE,
                         sessionId |-> r.session_id, timestamp |-> Timestamp(now),
                         source |-> "knowledge-agent-lambda"],
                        WithoutResponse(r.body_obj)))

\* lines 993-1010, and the same envelope without its source
AgentEnvelope_noSource(r, text, now) ==
    Envelope(200, [response |-> text, agent |-> r.selected_agent,
                   sessionId |-> r.session_id, timestamp |-> Timestamp(now),
                   agentcore_available |-> IF AGENTCORE_AVAILABLE THEN "true" ELSE "false"])
AgentEnvelope(r, text, now) ==
    Envelope(200, [response |-> text, agent |-> r.selected_agent,
                   sessionId |-> r.session_id, timestamp |-> Timestamp(now),
                   source |-> IF AGENTCORE_AVAILABLE THEN "bedrock-agentcore" ELSE "amazon-nova-pro",
                   agentcore_available |-> IF AGENTCORE_AVAILABLE THEN "true" ELSE "false"])

\* line 249: ask again, once; and the same test without the intent condition
NeedsRefinement_anyIntent(qa_intent, response_text) ==
    looks_like_org(response_text)
NeedsRefinement(qa_intent, response_text) ==
    qa_intent = "recipient" /\ looks_like_org(response_text)

\* invoke_document_agent_lambda, lines 207-249: the first call
DocInvoke(p, i) ==
    /\ req[p].pc = "document"
    /\ LET r         == req[p]
           reply     == AllReplies[i]
           qa_intent == detect_document_qa_intent(r.message)
           parsed    == ParseReply(reply)
           text      == IF Falsy(Get(parsed.d, "response"))
                        THEN "Here are your documents."
                        ELSE parsed.d["response"]
           called    == [r EXCEPT !.doc_calls = @ + 1, !.reply1 = i, !.qa_intent = qa_intent]
       IN  IF reply.raise \/ ~parsed.isDict
           THEN Set(p, [called EXCEPT !.pc = "done", !.result = DocFallbackEnvelope(r, clock)])
           ELSE Set(p, [called EXCEPT
                    !.pc = IF NeedsRefinement(qa_intent, text) THEN "refine" ELSE "save_user",
                    !.first_answer = text, !.response_text = text, !.body_obj = parsed.d])
    /\ UNCHANGED <<store, clock, AGENTCORE_AVAILABLE, agentOut>>

\* lines 250-294: the second call; its failures keep the first answer.
\* Before it, the same step asking again while the answer names an
\* organization
DocRefine_again(p, i) ==
    /\ req[p].pc = "refine"
    /\ LET r      == req[p]
           reply  == AllReplies[i]
           parsed == ParseReply(reply)
           alt    == IF Falsy(Get(parsed.d, "response")) THEN "" ELSE parsed.d["response"]
           again  == alt # "" /\ looks_like_org(alt) /\ r.doc_calls < 3
           called == [r EXCEPT !.doc_calls = @ + 1, !.reply2 = i,
                               !.pc = IF again THEN "refine" ELSE "save_user"]
       IN  IF reply.raise \/ ~parsed.isDict \/ alt = ""
           THEN Set(p, called)
           ELSE Set(p, [called EXCEPT !.response_text = alt,
                                      !.body_obj = Merge(parsed.d, r.body_obj)])
    /\ UNCHANGED <<store, clock, AGENTCORE_AVAILABLE, agentOut>>
DocRefine(p, i) ==
    /\ req[p].pc = "refine"
    /\ LET r      == req[p]
           reply  == AllReplies[i]
           parsed == ParseReply(reply)
           alt    == IF Falsy(Get(parsed.d, "response")) THEN "" ELSE parsed.d["response"]
           called == [r EXCEPT !.doc_calls = @ + 1, !.reply2 = i, !.pc = "save_user"]
       IN  IF reply.raise \/ ~parsed.isDict \/ alt = ""
           THEN Set(p, called)
           ELSE Set(p, [called EXCEPT !.response_text = alt,
                                      !.body_obj = Merge(parsed.d, r.body_obj)])
    /\ UNCHANGED <<store, clock, AGENTCORE_AVAILABLE, agentOut>>

\* invoke_knowledge_agent_lambda, lines 341-379
KnowInvoke(p, i) ==
    /\ req[p].pc = "knowledge"
    /\ LET r      == req[p]
           reply  == AllReplies[i]
           parsed == ParseReply(reply)
           text   == IF Falsy(Get(parsed.d, "response"))
                     THEN "Here is the regional guidance."
                     ELSE parsed.d["response"]
           called == [r EXCEPT !.know_calls = @ + 1, !.reply1 = i]
       IN  IF reply.raise \/ ~parsed.isDict
           THEN Set(p, [called EXCEPT !.pc = "done", !.result = KnowFallbackEnvelope(r, clock)])
           ELSE Set(p, [called EXCEPT !.pc = "save_user", !.first_answer = text,
                                      !.response_text = text, !.body_obj = parsed.d])
    /\ UNCHANGED <<store, clock, AGENTCORE_AVAILABLE, agentOut>>

\* save_conversation_message, lines 564-587: ok = FALSE when put_item raises
save_conversation_message(table, session_id, user_id, role, content, agent_type, now, ok) ==
    IF ok THEN PutItem(table, Item(session_id, user_id, role, content, agent_type, now))
    ELSE table

\* lines 298, 383 and 935: the user message of the turn, saved with the
\* value now that line 564 read from the clock.  Before it, the same step
\* with the failure of put_item reaching the handler's except branch
SaveUserAt_fatal(p, ok, now) ==
    /\ req[p].pc = "save_user"
    /\ LET r == req[p]
       IN  /\ store' = save_conversation_message(store, r.session_id, r.user_id, "user",
                                                 r.message, PyNone, now, ok)
           /\ IF ok
              THEN Set(p, [r EXCEPT !.pc = "save_assistant", !.writes = @ + 1,
                                    !.saved = @ \cup {"user"}, !.now = 0])
              ELSE Set(p, [r EXCEPT !.pc = "done", !.writes = @ + 1, !.now = 0,
                                    !.result = Envelope(500, [error |-> "Internal server error",
                                                  message |-> "Failed to process agent request"])])
    /\ UNCHANGED <<AGENTCORE_AVAILABLE, agentOut>>
SaveUserAt(p, ok, now) ==
    /\ req[p].pc = "save_user"
    /\ LET r == req[p]
       IN  /\ store' = save_conversation_message(store, r.session_id, r.user_id, "user",
                                                 r.message, PyNone, now, ok)
           /\ Set(p, [r EXCEPT !.pc = "save_assistant", !.writes = @ + 1,
                               !.saved = IF ok THEN @ \cup {"user"} ELSE @,
                               !.now = 0])
    /\ UNCHANGED <<AGENTCORE_AVAILABLE, agentOut>>

\* the save of one invocation running alone: the clock is read and the item
\* is put, and the time of the call has passed
SaveUser(p, ok) == SaveUserAt(p, ok, clock) /\ clock' = clock + 1

\* the agent_type the path stores with the assistant message
StoredAgent(r) ==
    CASE r.path = "document"  -> DOCUMENT
      [] r.path = "knowledge" -> KNOWLEDGE
      [] OTHER                -> r.selected_agent

\* lines 299, 384 and 936, and the return that follows
SaveAssistantAt(p, ok, now) ==
    /\ req[p].pc = "save_assistant"
    /\ LET r == req[p]
       IN  /\ store' = save_conversation_message(store, r.session_id, r.user_id, "assistant",
                                                 r.response_text, StoredAgent(r), now, ok)
           /\ Set(p, [r EXCEPT
                 !.pc = "done", !.writes = @ + 1, !.saved = IF ok THEN @ \cup {"assistant"} ELSE @,
                 !.now = 0,
                 !.result = CASE r.path = "document"  -> DocEnvelope(r, now + 1)
                              [] r.path = "knowledge" -> KnowEnvelope(r, now + 1)
                              [] OTHER -> AgentEnvelope(r, r.response_text, now + 1)])
    /\ UNCHANGED <<AGENTCORE_AVAILABLE, agentOut>>

SaveAssistant(p, ok) == SaveAssistantAt(p, ok, clock) /\ clock' = clock + 1

\* invoke_agent -> invoke_agentcore (lines 696-698, 723-738): the runtime
\* identifier of the three specialists is an ECR URI, so the call goes to
\* invoke_foundation_model_direct, which returns a text on every outcome
IsEcrRuntime(a) == StartsWith(AGENT_RUNTIME_ARNS[a], "775525057465.dkr.ecr")

AgentCoreInvoke(p, i) ==
    /\ req[p].pc = "agentcore"
    /\ IsEcrRuntime(req[p].selected_agent)
    /\ LET r    == req[p]
           text == DirectText(ModelOutcomes[i])
       IN  Set(p, [r EXCEPT !.pc = "done", !.primary = i, !.primary_calls = @ + 1,
                            !.response_text = text,
                            !.result = AgentEnvelope(r, text, clock)])
    /\ UNCHANGED <<store, clock, AGENTCORE_AVAILABLE, agentOut>>

\* invoke_foundation_model, line 876: a first read whose result is not used
FoundationHistory(p, ok) ==
    /\ req[p].pc = "foundation"
    /\ Set(p, [req[p] EXCEPT !.pc = "context", !.reads = @ + 1])
    /\ UNCHANGED <<store, clock, AGENTCORE_AVAILABLE, agentOut>>

\* line 877: build_conversation_context reads the history again
FoundationContext(p, ok) ==
    /\ req[p].pc = "context"
    /\ LET r       == req[p]
           history == get_conversation_history(store, r.session_id, r.user_id, 10, ok)
       IN  Set(p, [r EXCEPT !.pc = "model", !.reads = @ + 1,
                            !.context = build_conversation_context(history, r.message)])
    /\ UNCHANGED <<store, clock, AGENTCORE_AVAILABLE, agentOut>>

\* lines 909-942: the model call; the except branch returns without saving
FoundationInvoke(p, i) ==
    /\ req[p].pc = "model"
    /\ LET r   == req[p]
           out == FoundationText(ModelOutcomes[i])
           called == [r EXCEPT !.fallback = i, !.fallback_calls = @ + 1,
                               !.response_text = out.text]
       IN  IF out.raised
           THEN Set(p, [called EXCEPT !.pc = "done",
                                      !.result = AgentEnvelope(r, out.text, clock)])
           ELSE Set(p, [called EXCEPT !.pc = "save_user"])
    /\ UNCHANGED <<store, clock, AGENTCORE_AVAILABLE, agentOut>>

(***************************************************************************)
(* handler of a specialist container (agent.py): parse, require a message, *)
(* call the model and extract the text.  The intent analysis only shapes   *)
(* the prompt and is left out.                                             *)
(***************************************************************************)
SpecialistHandler(a, message, i) ==
    /\ agentOut = NoAgentOut
    /\ \A p \in Procs : req[p].pc = "idle"
    /\ agentOut' = IF message = ""
                   THEN [agent |-> a, outcome |-> 0, statusCode |-> 400, response |-> PyNone]
                   ELSE [agent |-> a, outcome |-> i, statusCode |-> 200,
                         response |-> SpecialistText(a, ModelOutcomes[i])]
    /\ UNCHANGED <<store, clock, AGENTCORE_AVAILABLE, req>>

(***************************************************************************)
(* One invocation per behaviour: a request to the router from a table left *)
(* by earlier requests, or a request to a specialist container.            *)
(***************************************************************************)
Begin(p) ==
    /\ agentOut = NoAgentOut
    /\ \E ev \in Events : ParseEvent(p, ev)

Next ==
    \/ \E p \in Procs : Begin(p)
    \/ \E p \in Procs, ok \in BOOLEAN : SelectAgent(p, ok)
    \/ \E p \in Procs, i \in 1..Len(BackendReplies) : DocInvoke(p, i)
    \/ \E p \in Procs, i \in 1..Len(BackendReplies) : DocRefine(p, i)
    \/ \E p \in Procs, i \in 1..Len(BackendReplies) : KnowInvoke(p, i)
    \/ \E p \in Procs, i \in 1..Len(ModelOutcomes) : AgentCoreInvoke(p, i)
    \/ \E p \in Procs, ok \in BOOLEAN : FoundationHistory(p, ok)
    \/ \E p \in Procs, ok \in BOOLEAN : FoundationContext(p, ok)
    \/ \E p \in Procs, i \in 1..Len(ModelOutcomes) : FoundationInvoke(p, i)
    \/ \E p \in Procs, ok \in BOOLEAN : SaveUser(p, ok)
    \/ \E p \in Procs, ok \in BOOLEAN : SaveAssistant(p, ok)
    \/ \E a \in {HEALTH, APPOINTMENT, COMMUNITY}, m \in Messages, i \in 1..Len(ModelOutcomes) :
          SpecialistHandler(a, m, i)

Spec == Init /\ [][Next]_vars

(***************************************************************************)
(* Vocabulary of the properties, stated from the specification             *)
(***************************************************************************)
Done(p) == req[p].pc = "done"

\* select_agent has returned
Selected(p) == req[p].pc \notin {"idle", "select"} /\ req[p].selected_agent # PyNone

\* what the table held for the session when the request arrived
StoredBefore(session_id) ==
    {it \in store : it.session_id = session_id /\ it.timestamp < StartClock}

\* the number of an agent's keywords that occur in the lower-cased message
RefScore(a, m) ==
    LET ml == Lower(m)
    IN  Cardinality({k \in 1..Len(AGENT_KEYWORDS[a]) :
            \E i \in 1..Len(ml) :
               /\ i + Len(AGENT_KEYWORDS[a][k]) - 1 <= Len(ml)
               /\ SubSeq(ml, i, i + Len(AGENT_KEYWORDS[a][k]) - 1) = AGENT_KEYWORDS[a][k]})

\* the scores of the messages of the model, computed once
RefScores == [m \in Messages |-> [a \in Agents |-> RefScore(a, m)]]

\* pure keyword classification: maximum score, first in the fixed order on
\* ties, the health assistant when every score is zero
RefClassify(m) ==
    IF \A a \in Agents : RefScores[m][a] = 0 THEN HEALTH
    ELSE LET top == {i \in 1..5 : \A j \in 1..5 : RefScores[m][AgentOrder[j]] <= RefScores[m][AgentOrder[i]]}
         IN  AgentOrder[CHOOSE i \in top : \A j \in top : i <= j]

\* the message contains keywords of specialist a and of no other
OnlyKeywordsOf(a, m) ==
    RefScores[m][a] >= 1 /\ \A b \in Agents \ {a} : RefScores[m][b] = 0

\* lastAgent: the agentType of the most recent assistant message carrying
\* one among the last 4 stored messages of the session, PyNone when none
RefLastAgent(session_id) ==
    LET mine   == StoredBefore(session_id)
        last4  == {it \in mine : Cardinality({o \in mine : o.timestamp > it.timestamp}) <= 3}
        tagged == {it \in last4 : it.role = "assistant" /\ it.agent_type # PyNone}
    IN  IF tagged = {} THEN PyNone
        ELSE (CHOOSE it \in tagged : \A o \in tagged : o.timestamp <= it.timestamp).agent_type

IsAcknowledgment(m) ==
    \E k \in {"yes", "no", "ok", "sure", "that works", "sounds good", "perfect", "great"} :
        \E i \in 1..Len(m) : i + Len(k) - 1 <= Len(m) /\ Lower(SubSeq(m, i, i + Len(k) - 1)) = k

RefAcknowledgment == [m \in Messages |-> IsAcknowledgment(m)]

RefAtMostFiveWords == [m \in Messages |-> WordCount(m) <= 5]

RefContinuity(session_id, m) ==
    /\ RefLastAgent(session_id) \in Agents
    /\ (RefAcknowledgment[m] \/ RefAtMostFiveWords[m])

\* which backend family the request called
CalledDocument(r)   == r.doc_calls >= 1 /\ r.know_calls = 0 /\ r.primary_calls + r.fallback_calls = 0
CalledKnowledge(r)  == r.know_calls >= 1 /\ r.doc_calls = 0 /\ r.primary_calls + r.fallback_calls = 0
CalledSpecialist(r) == r.primary_calls + r.fallback_calls >= 1 /\ r.doc_calls = 0 /\ r.know_calls = 0

RoutedTo(r, a) ==
    /\ r.result.statusCode = 200
    /\ Get(r.result.body, "agent") = a
    /\ CASE a = DOCUMENT  -> CalledDocument(r)
         [] a = KNOWLEDGE -> CalledKnowledge(r)
         [] OTHER         -> CalledSpecialist(r)

(***************************************************************************)
(* Routing                                                                 *)
(***************************************************************************)
\* C1: a request with no explicit hint and no stored history whose message
\* contains keywords of exactly one specialist is routed to that specialist:
\* the response names it and its backend is the one invoked.
C1_UniqueKeywordsRouteToSpecialist ==
    \A p \in Procs : \A a \in Agents :
        ( /\ Done(p)
          /\ req[p].body = "object"
          /\ req[p].agent_type = PyNone
          /\ ~Falsy(req[p].message)
          /\ StoredBefore(req[p].session_id) = {}
          /\ OnlyKeywordsOf(a, req[p].message) )
        => RoutedTo(req[p], a)

\* C2 as stated: without a hint the decision is lastAgent if and only if
\* lastAgent exists and the message is an acknowledgment or has at most 5
\* words, and otherwise it is the keyword classification.
C2_ContinuityIff ==
    \A p \in Procs :
        (Selected(p) /\ req[p].agent_type = PyNone /\ req[p].read_ok)
        => LET r == req[p]
               continuity == RefContinuity(r.session_id, r.message)
           IN  /\ (r.selected_agent = RefLastAgent(r.session_id)) <=> continuity
               /\ ~continuity => r.selected_agent = RefClassify(r.message)

\* C2 amended: without a hint and with the history read, the decision is
\* lastAgent if lastAgent exists and the message is an acknowledgment or has
\* at most 5 words, whatever its keywords; in every other case it is the
\* keyword classification of the message (which may name lastAgent too).
C2_ContinuityElseClassification ==
    \A p \in Procs :
        (Selected(p) /\ req[p].agent_type = PyNone /\ req[p].read_ok)
        => LET r == req[p]
           IN  IF RefContinuity(r.session_id, r.message)
               THEN r.selected_agent = RefLastAgent(r.session_id)
               ELSE r.selected_agent = RefClassify(r.message)

\* continuity decided against the keywords of the message
C2_Witness ==
    \E p \in Procs :
        /\ Selected(p) /\ req[p].agent_type = PyNone /\ req[p].read_ok
        /\ RefContinuity(req[p].session_id, req[p].message)
        /\ req[p].selected_agent = COMMUNITY
        /\ RefClassify(req[p].message) = APPOINTMENT
        /\ ~RefAtMostFiveWords[req[p].message]

\* C3: with the hint document-agent the request goes to the knowledge
\* backend when the knowledge score exceeds the document score, and to the
\* document backend otherwise.
C3_DocumentHintCrossCheck ==
    \A p \in Procs :
        (Done(p) /\ req[p].body = "object" /\ req[p].agent_type = DOCUMENT /\ ~Falsy(req[p].message))
        => IF RefScores[req[p].message][KNOWLEDGE] > RefScores[req[p].message][DOCUMENT]
           THEN RoutedTo(req[p], KNOWLEDGE)
           ELSE RoutedTo(req[p], DOCUMENT)

\* C4: a hint naming a known specialist other than document-agent is the
\* decision, made without reading the store; a hint naming no specialist
\* leaves the decision what it is without a hint.
C4_ExplicitHintWins ==
    \A p \in Procs :
        Selected(p)
        => LET r == req[p]
           IN  /\ (r.agent_type \in Agents \ {DOCUMENT})
                  => /\ r.selected_agent = r.agent_type
                     /\ r.pc = r.path => r.reads = 0
               /\ (r.agent_type \notin Agents /\ r.read_ok)
                  => r.selected_agent = IF RefContinuity(r.session_id, r.message)
                                        THEN RefLastAgent(r.session_id)
                                        ELSE RefClassify(r.message)

\* a hint overrode both the continuity of the session and the keywords
C4_Witness ==
    \E p \in Procs :
        /\ Selected(p) /\ req[p].pc = req[p].path
        /\ req[p].agent_type = HEALTH /\ req[p].selected_agent = HEALTH
        /\ RefLastAgent(req[p].session_id) = COMMUNITY
        /\ RefClassify(req[p].message) = APPOINTMENT
        /\ RefContinuity(req[p].session_id, req[p].message)

(***************************************************************************)
(* Dispatch and fallback                                                   *)
(***************************************************************************)
\* the request took the specialist/foundation-model family
SpecialistPath(r) == r.path \in {"agentcore", "foundation"}

\* the primary call failed: the runtime is unavailable, or the call made to
\* it raised or returned a payload that carries no answer
PrimaryFailed(r) ==
    \/ ~AGENTCORE_AVAILABLE
    \/ r.primary # 0 /\ ~WellFormed(ModelOutcomes[r.primary])

FallbackFailed(r) == r.fallback # 0 /\ ~WellFormed(ModelOutcomes[r.fallback])

\* C5: on the specialist path a failed primary call is followed by exactly
\* one call of the foundation-model fallback, whose result is the text
\* returned.
C5_PrimaryFailureFallsBackOnce ==
    \A p \in Procs :
        (Done(p) /\ SpecialistPath(req[p]) /\ PrimaryFailed(req[p]))
        => /\ req[p].fallback_calls = 1
           /\ req[p].fallback # 0
           /\ Get(req[p].result.body, "response") = FoundationText(ModelOutcomes[req[p].fallback]).text

\* C6: when the primary call and the fallback call both fail, the request
\* returns a 200 envelope with the fixed apology text and the source tag
\* fallback-apology.
C6_BothFailApologyTagged ==
    \A p \in Procs :
        (Done(p) /\ SpecialistPath(req[p]) /\ PrimaryFailed(req[p]) /\ FallbackFailed(req[p]))
        => /\ req[p].result.statusCode = 200
           /\ Get(req[p].result.body, "response") = APOLOGY
           /\ Get(req[p].result.body, "source") = "fallback-apology"
           /\ Get(req[p].result.body, "source") \notin {"bedrock-agentcore", "amazon-nova-pro"}

\* the text a model call of the router produced
RouterExtracted(r) == (r.primary # 0 \/ r.fallback # 0) /\ r.response_text # PyNone

\* C7: text extraction yields a non-empty string for every payload shape,
\* in the router and in each specialist, and the one fixed fallback text
\* for a shape that carries no answer.
C7_ExtractionNeverEmpty ==
    /\ \A p \in Procs :
          RouterExtracted(req[p])
          => /\ req[p].response_text # ""
             /\ LET i == IF req[p].primary # 0 THEN req[p].primary ELSE req[p].fallback
                IN  (~ModelOutcomes[i].raise /\ ~WellFormed(ModelOutcomes[i]))
                    => req[p].response_text = FORMAT_ISSUE
    /\ agentOut.statusCode = 200
          => /\ agentOut.response \notin {"", PyNone}
             /\ (~ModelOutcomes[agentOut.outcome].raise /\ ~WellFormed(ModelOutcomes[agentOut.outcome]))
                => agentOut.response = SpecialistClarify[agentOut.agent]

\* the event carries no message: no body, a null body, or an object whose
\* message is absent or empty
MessageMissing(r) == r.body \in {"absent", "null"} \/ (r.body = "object" /\ Falsy(r.message))

NoDownstreamWork(r) ==
    /\ r.reads = 0 /\ r.writes = 0
    /\ r.doc_calls = 0 /\ r.know_calls = 0 /\ r.primary_calls = 0 /\ r.fallback_calls = 0
    /\ store \in EarlierStores

\* C8: a request whose message is missing or empty gets a 400 response and
\* no store read, store write or backend call is made for it.
C8_MissingMessageIs400 ==
    \A p \in Procs :
        (Done(p) /\ MessageMissing(req[p]))
        => req[p].result.statusCode = 400 /\ NoDownstreamWork(req[p])

\* the request took the direct-backend family
DirectPath(r) == r.path \in {"document", "knowledge"}

FixedApology(r) ==
    /\ r.result.statusCode = 200
    /\ Get(r.result.body, "source") = "fallback"
    /\ Get(r.result.body, "response") = IF r.path = "document" THEN DOC_FALLBACK_TEXT
                                        ELSE KNOW_FALLBACK_TEXT
    /\ DOMAIN r.result.body \subseteq
          {"response", "agent", "sessionId", "timestamp", "source", "agentcore_available"}

\* C9: on the direct-backend path every transport failure and every reply
\* that cannot be parsed ends in the fixed apology tagged source=fallback in
\* a 200 envelope.
C9_DirectFailureIsApology ==
    \A p \in Procs :
        ( /\ Done(p) /\ DirectPath(req[p]) /\ req[p].reply1 # 0
          /\ (BackendReplies[req[p].reply1].raise \/ Unparsable(BackendReplies[req[p].reply1])) )
        => FixedApology(req[p])

\* the document path has made its backend calls
DocumentCallsMade(r) == r.path = "document" /\ r.pc \in {"save_user", "save_assistant", "done"}

\* C10: on the document path a second call is made if and only if the
\* sub-intent is recipient and the first answer looks like an organization,
\* and then exactly once, so a recipient answer containing "Pty Ltd" makes
\* exactly two calls.
C10_ExactlyOneRefinement ==
    \A p \in Procs :
        LET r == req[p]
        IN  /\ r.doc_calls <= 2
            /\ DocumentCallsMade(r)
               => /\ r.doc_calls = 2 <=> ( /\ r.first_answer # PyNone
                                           /\ r.qa_intent = "recipient"
                                           /\ looks_like_org(r.first_answer) )
                  /\ ( /\ r.first_answer # PyNone
                       /\ r.qa_intent = "recipient"
                       /\ Contains("Pty Ltd", r.first_answer) )
                     => r.doc_calls = 2

\* the second answer named an organization again and no third call was made
C10_Witness ==
    \E p \in Procs :
        /\ Done(p) /\ req[p].path = "document"
        /\ req[p].qa_intent = "recipient"
        /\ Contains("Pty Ltd", req[p].first_answer)
        /\ req[p].reply2 # 0
        /\ Get(ParseReply(BackendReplies[req[p].reply2]).d, "response") = "Acme Pty Ltd"
        /\ req[p].doc_calls = 2

(***************************************************************************)
(* Persistence of the turn                                                 *)
(***************************************************************************)
\* a reply of a dedicated backend that carries an answer
AnswerReply(reply) ==
    /\ ~reply.raise /\ reply.payload = "dict" /\ reply.body = "dict"
    /\ ~Falsy(Get(reply.inner, "response"))

\* the request was answered by a backend: the specialist runtime, the
\* foundation-model fallback or a dedicated backend returned an answer
BackendAnswered(r) ==
    /\ r.result.statusCode = 200
    /\ CASE r.path \in {"document", "knowledge"} ->
                /\ r.reply1 # 0 /\ AnswerReply(BackendReplies[r.reply1])
                /\ r.reply2 # 0 => AnswerReply(BackendReplies[r.reply2])
          [] r.path = "agentcore"  -> r.primary # 0 /\ WellFormed(ModelOutcomes[r.primary])
          [] r.path = "foundation" -> r.fallback # 0 /\ WellFormed(ModelOutcomes[r.fallback])
          [] OTHER -> FALSE

\* every put_item the request attempted was accepted
StoreAcceptedWrites(r) == Cardinality(r.saved) = r.writes

\* the items the table holds for the session that were not there before
AppendedTo(session_id) ==
    {it \in store : it.session_id = session_id /\ it.timestamp >= StartClock}

\* C11: a request answered by a backend while the store accepts writes
\* leaves exactly two new messages in its session: the user message with the
\* request's message, then the assistant message with the returned text and
\* the specialist named in the response.
C11_TurnPersistedAsTwoMessages ==
    \A p \in Procs :
        (Done(p) /\ BackendAnswered(req[p]) /\ StoreAcceptedWrites(req[p]))
        => LET r == req[p]
               new == AppendedTo(r.session_id)
           IN  /\ store \ new \in EarlierStores
               /\ \E u \in new, a \in new :
                     /\ new = {u, a}
                     /\ u.timestamp < a.timestamp
                     /\ u.role = "user" /\ u.content = r.message
                     /\ a.role = "assistant"
                     /\ a.content = Get(r.result.body, "response")
                     /\ a.agent_type = Get(r.result.body, "agent")

(***************************************************************************)
(* Two consecutive requests: the second arrives when the first has been    *)
(* answered.  The follow-up carries no hint.                               *)
(***************************************************************************)
SeqProcs == {1, 2}

SeqStores == {{}, Turn("s1", "u1", COMMUNITY, 1)}

SeqFirstEvents ==
    {Event("object", m, "u1", "s1", h) :
        m \in {"i feel sick", "Who is this document for?", "ndis compliance audit"},
        h \in {PyNone} \cup Agents}

SeqFollowEvents ==
    {Event("object", m, "u1", "s1", PyNone) :
        m \in {"sure", "latest research news", "ok please book the next available checkup slot",
               "tell me a story about cats and dogs"}}
    \cup {Event("object", "sure", "u1", "s2", PyNone)}

\* the backend replies and model outcomes of the two requests: a transport
\* error, an unparsable payload, an answer, an organization-looking answer
SeqReplies  == {1, 3, 9, 10}
SeqOutcomes == {1, 2, 4}

InitSeq ==
    /\ store \in SeqStores
    /\ clock = StartClock
    /\ AGENTCORE_AVAILABLE \in BOOLEAN
    /\ req = [p \in SeqProcs |-> IdleReq]
    /\ agentOut = NoAgentOut

FirstRequest == req[1].pc = "idle" /\ \E ev \in SeqFirstEvents : ParseEvent(1, ev)

FollowUpRequest ==
    /\ req[1].pc = "done" /\ req[2].pc = "idle"
    /\ \E ev \in SeqFollowEvents : ParseEvent(2, ev)

NextSeq ==
    \/ FirstRequest
    \/ FollowUpRequest
    \/ \E p \in SeqProcs, ok \in BOOLEAN : SelectAgent(p, ok)
    \/ \E p \in SeqProcs, i \in SeqReplies : DocInvoke(p, i)
    \/ \E p \in SeqProcs, i \in SeqReplies : DocRefine(p, i)
    \/ \E p \in SeqProcs, i \in SeqReplies : KnowInvoke(p, i)
    \/ \E p \in SeqProcs, i \in SeqOutcomes : AgentCoreInvoke(p, i)
    \/ \E p \in SeqProcs, ok \in BOOLEAN : FoundationHistory(p, ok)
    \/ \E p \in SeqProcs, ok \in BOOLEAN : FoundationContext(p, ok)
    \/ \E p \in SeqProcs, i \in SeqOutcomes : FoundationInvoke(p, i)
    \/ \E p \in SeqProcs, ok \in BOOLEAN : SaveUser(p, ok)
    \/ \E p \in SeqProcs, ok \in BOOLEAN : SaveAssistant(p, ok)

SpecSeq == InitSeq /\ [][NextSeq]_vars

\* the follow-up: the second request, in the session of the first, without a
\* hint, once select_agent has returned with the history read
FollowsUp(first, next) ==
    /\ first.pc = "done"
    /\ next.pc \notin {"idle", "select"}
    /\ next.session_id = first.session_id
    /\ next.agent_type = PyNone
    /\ next.read_ok

\* C12: after a request that a backend answered with a success envelope
\* naming specialist A, with the store available, a follow-up in the same session without a
\* hint whose message is an acknowledgment or has at most 5 words is routed
\* to A.
C12_ContinuityAcrossRequests ==
    ( /\ FollowsUp(req[1], req[2])
      /\ BackendAnswered(req[1])
      /\ StoreAcceptedWrites(req[1])
      /\ RefAcknowledgment[req[2].message] \/ RefAtMostFiveWords[req[2].message] )
    => req[2].selected_agent = Get(req[1].result.body, "agent")

(***************************************************************************)
(* Concurrent invocations.  Each runs in its own container; within a save  *)
(* the read of the clock (line 564) and put_item (line 584) are separate   *)
(* steps, so two invocations can read the same value before either puts.   *)
(***************************************************************************)
ConcProcs == {1, 2}

ConcEvents ==
    {Event("object", m, "u1", s, PyNone) :
        m \in {"i feel sick", "ndis compliance audit"}, s \in {"s1", "s2"}}

\* a transport error and an answer
ConcReplies  == {1, 9}
ConcOutcomes == {1, 2}

InitConc ==
    /\ store = {}
    /\ clock = StartClock
    /\ AGENTCORE_AVAILABLE = FALSE
    /\ req = [p \in ConcProcs |-> IdleReq]
    /\ agentOut = NoAgentOut

\* line 564: timestamp = datetime.now().isoformat()
ReadNow(p) ==
    /\ req[p].pc \in {"save_user", "save_assistant"}
    /\ req[p].now = 0
    /\ Set(p, [req[p] EXCEPT !.now = clock])
    /\ UNCHANGED <<store, clock, AGENTCORE_AVAILABLE, agentOut>>

\* the clock after a put_item that used the value now
After(now) == IF clock > now THEN clock ELSE now + 1

\* line 584: table.put_item(Item=item)
PutUser(p, ok) ==
    /\ req[p].now # 0
    /\ SaveUserAt(p, ok, req[p].now)
    /\ clock' = After(req[p].now)

PutAssistant(p, ok) ==
    /\ req[p].now # 0
    /\ SaveAssistantAt(p, ok, req[p].now)
    /\ clock' = After(req[p].now)

NextConc ==
    \/ \E p \in ConcProcs, ev \in ConcEvents : ParseEvent(p, ev)
    \/ \E p \in ConcProcs, ok \in BOOLEAN : SelectAgent(p, ok)
    \/ \E p \in ConcProcs, i \in ConcReplies : KnowInvoke(p, i)
    \/ \E p \in ConcProcs, ok \in BOOLEAN : FoundationHistory(p, ok)
    \/ \E p \in ConcProcs, ok \in BOOLEAN : FoundationContext(p, ok)
    \/ \E p \in ConcProcs, i \in ConcOutcomes : FoundationInvoke(p, i)
    \/ \E p \in ConcProcs : ReadNow(p)
    \/ \E p \in ConcProcs, ok \in BOOLEAN : PutUser(p, ok)
    \/ \E p \in ConcProcs, ok \in BOOLEAN : PutAssistant(p, ok)

SpecConc == InitConc /\ [][NextConc]_vars

\* the put_item calls of all invocations that succeeded so far
SuccessfulSaves == Cardinality(req[1].saved) + Cardinality(req[2].saved)

\* C13: under concurrent invocations every successful save adds a message
\* and none replaces a stored one: the table holds as many messages as
\* there were successful saves, each under its own messageId.
C13_AppendOnlyUniqueIds ==
    /\ Cardinality(store) = SuccessfulSaves
    /\ \A a \in store, b \in store : a.message_id = b.message_id => a = b

(***************************************************************************)
(* Round trip through the store                                            *)
(***************************************************************************)
\* what the first request passed to save_conversation_message for a role
SavedContent(r, role) == IF role = "user" THEN r.message ELSE r.response_text

\* C14: a message saved by a request is returned by the following query of
\* the session's history with the content that was saved, and its ttl is an
\* instant after its timestamp, 7 days after it.
C14_SaveThenQueryRoundTrip ==
    FollowsUp(req[1], req[2])
    => \A role \in req[1].saved :
          \E i \in 1..Len(req[2].history) :
             LET it == req[2].history[i]
             IN  /\ it.timestamp >= StartClock
                 /\ it.role = role
                 /\ it.content = SavedContent(req[1], role)
                 /\ it.ttl * TicksPerSecond > it.timestamp
                 /\ it.ttl - Seconds(it.timestamp) = 7 * 24 * 60 * 60

\* both messages of a turn came back, behind the turn stored before them
C14_Witness ==
    /\ FollowsUp(req[1], req[2])
    /\ req[1].saved = {"user", "assistant"}
    /\ Len(req[2].history) = 4
    /\ req[2].history[3].content = req[1].message
    /\ req[2].history[4].content = req[1].response_text

(***************************************************************************)
(* The transcript handlers: get_conversation_handler and                   *)
(* delete_conversation_handler.  One invocation per behaviour, on a table  *)
(* that holds turns of several users and sessions; the items of a session  *)
(* fit in one page of a query (small volumes expected per session).        *)
(***************************************************************************)
ApiStores ==
    LET A == Turn("s1", "u1", HEALTH, 1)
        B == Turn("s1", "u2", COMMUNITY, 3)
        C == Turn("s2", "u1", APPOINTMENT, 5)
        D == Turn("s2", "anonymous", HEALTH, 2)
    IN  {{}, A, B, A \cup B, A \cup B \cup C, B \cup C \cup D, A \cup B \cup C \cup D}

\* pathParameters.sessionId and queryStringParameters.userId
ApiSessionIds == {PyNone, "", "s1", "s2", "s3"}
ApiUserIds    == {PyNone, "anonymous", "u1", "u2", "u3"}

InitApi ==
    /\ store \in ApiStores
    /\ clock = StartClock
    /\ AGENTCORE_AVAILABLE \in BOOLEAN
    /\ req = [p \in Procs |-> IdleReq]
    /\ agentOut = NoAgentOut

\* lines 1149-1171 and 1217-1239: the two parameters are required
MissingParameter(session_id, user_id) ==
    IF Falsy(session_id) THEN "Session ID is required"
    ELSE IF Falsy(user_id) \/ user_id = "anonymous" THEN "User ID is required"
    ELSE PyNone

\* the query of lines 526-530 and 1243-1246: the items of the session whose
\* user_id is the requested one, and the same query without its filter
SessionItemsOf_anyUser(table, session_id, user_id) ==
    {it \in table : it.session_id = session_id}
SessionItemsOf(table, session_id, user_id) ==
    {it \in table : it.session_id = session_id /\ it.user_id = user_id}

\* lines 534-544: the fields given to the frontend
RECURSIVE FormatMessages(_)
FormatMessages(items) ==
    IF items = <<>> THEN <<>>
    ELSE <<[id |-> Head(items).message_id, role |-> Head(items).role,
            content |-> Head(items).content, timestamp |-> Head(items).timestamp,
            agent_type |-> Head(items).agent_type]>> \o FormatMessages(Tail(items))

\* get_full_conversation; ok = FALSE when the store raises
get_full_conversation(table, session_id, user_id, ok) ==
    IF ok THEN FormatMessages(SortByTimestamp(SessionItemsOf(table, session_id, user_id)))
    ELSE <<>>

get_conversation_handler(p, session_id, user_id, ok) ==
    /\ req[p].pc = "idle"
    /\ LET r == [req[p] EXCEPT !.pc = "done", !.path = "get_conversation",
                               !.session_id = session_id, !.user_id = user_id,
                               !.before = store]
           missing == MissingParameter(session_id, user_id)
           conversation == get_full_conversation(store, session_id, user_id, ok)
       IN  IF missing # PyNone
           THEN Set(p, [r EXCEPT !.result = Envelope(400, [error |-> missing])])
           ELSE Set(p, [r EXCEPT !.reads = @ + 1, !.read_ok = ok,
                                 !.history = conversation,
                                 !.result = Envelope(200, [session_id |-> session_id,
                                                           count |-> ToString(Len(conversation))])])
    /\ UNCHANGED <<store, clock, AGENTCORE_AVAILABLE, agentOut>>

DeleteFailed == Envelope(500, [error |-> "Failed to delete conversation"])

Deleted(session_id, count) ==
    Envelope(200, [status |-> "deleted", session_id |-> session_id,
                   deleted_count |-> ToString(count)])

\* delete_conversation_handler, lines 1209-1247: the parameters and the query
DeleteQuery(p, session_id, user_id, ok) ==
    /\ req[p].pc = "idle"
    /\ LET r == [req[p] EXCEPT !.path = "delete_conversation",
                               !.session_id = session_id, !.user_id = user_id,
                               !.before = store]
           missing == MissingParameter(session_id, user_id)
           items   == SortByTimestamp(SessionItemsOf(store, session_id, user_id))
       IN  IF missing # PyNone
           THEN Set(p, [r EXCEPT !.pc = "done", !.result = Envelope(400, [error |-> missing])])
           ELSE IF ~ok
           THEN Set(p, [r EXCEPT !.pc = "done", !.reads = @ + 1, !.result = DeleteFailed])
           ELSE IF items = <<>>
           THEN Set(p, [r EXCEPT !.pc = "done", !.reads = @ + 1, !.read_ok = TRUE,
                                 !.result = Deleted(session_id, 0)])
           ELSE Set(p, [r EXCEPT !.pc = "deleting", !.reads = @ + 1, !.read_ok = TRUE,
                                 !.history = items])
    /\ UNCHANGED <<store, clock, AGENTCORE_AVAILABLE, agentOut>>

\* lines 1252-1257: the key given to delete_item, and a key that names the
\* session alone
HasKeyOf_sessionOnly(o, it) == o.session_id = it.session_id
HasKeyOf(o, it) == o.session_id = it.session_id /\ o.message_id = it.message_id

\* lines 1250-1271: one round of the loop, and the return after the last
DeleteItem(p, ok) ==
    /\ req[p].pc = "deleting"
    /\ LET r  == req[p]
           it == Head(r.history)
       IN  IF ~ok
           THEN /\ Set(p, [r EXCEPT !.pc = "done", !.result = DeleteFailed])
                /\ UNCHANGED store
           ELSE /\ store' = {o \in store : ~HasKeyOf(o, it)}
                /\ IF Len(r.history) = 1
                   THEN Set(p, [r EXCEPT !.pc = "done", !.history = <<>>, !.writes = @ + 1,
                                         !.result = Deleted(r.session_id, r.writes + 1)])
                   ELSE Set(p, [r EXCEPT !.history = Tail(@), !.writes = @ + 1])
    /\ UNCHANGED <<clock, AGENTCORE_AVAILABLE, agentOut>>

NextApi ==
    \/ \E p \in Procs, s \in ApiSessionIds, u \in ApiUserIds, ok \in BOOLEAN :
          get_conversation_handler(p, s, u, ok)
    \/ \E p \in Procs, s \in ApiSessionIds, u \in ApiUserIds, ok \in BOOLEAN :
          DeleteQuery(p, s, u, ok)
    \/ \E p \in Procs, ok \in BOOLEAN : DeleteItem(p, ok)

SpecApi == InitApi /\ [][NextApi]_vars

\* the stored messages of a session that were stored with a userId
StoredFor(table, session_id, user_id) ==
    {it \in table : it.session_id = session_id /\ it.user_id = user_id}

\* C15: every message a transcript request returns was stored with the
\* requesting userId, and a session holding only other users' messages
\* gives zero messages.
C15_TranscriptOnlyOwnMessages ==
    \A p \in Procs :
        (Done(p) /\ req[p].path = "get_conversation")
        => LET r == req[p]
           IN  /\ \A i \in 1..Len(r.history) :
                     \E it \in store :
                        /\ it.message_id = r.history[i].id
                        /\ it.content = r.history[i].content
                        /\ it.session_id = r.session_id
                        /\ it.user_id = r.user_id
               /\ StoredFor(store, r.session_id, r.user_id) = {}
                  => /\ Len(r.history) = 0
                     /\ r.result.statusCode = 200 => Get(r.result.body, "count") = "0"

\* a user read their two messages from a session that holds another user's
C15_Witness ==
    \E p \in Procs :
        /\ Done(p) /\ req[p].path = "get_conversation"
        /\ req[p].result.statusCode = 200
        /\ Len(req[p].history) = 2
        /\ \E it \in store : it.session_id = req[p].session_id /\ it.user_id # req[p].user_id

\* C16: a successful delete removes the messages of the session stored with
\* the userId, reports their number, and leaves every other message as it
\* was.
C16_DeleteRemovesOwnOnly ==
    \A p \in Procs :
        (Done(p) /\ req[p].path = "delete_conversation" /\ req[p].result.statusCode = 200)
        => LET r    == req[p]
               mine == StoredFor(r.before, r.session_id, r.user_id)
           IN  /\ store = r.before \ mine
               /\ Get(r.result.body, "deleted_count") = ToString(Cardinality(mine))

\* two messages were deleted from a session that keeps another user's
C16_Witness ==
    \E p \in Procs :
        /\ Done(p) /\ req[p].path = "delete_conversation"
        /\ req[p].result.statusCode = 200
        /\ Get(req[p].result.body, "deleted_count") = "2"
        /\ \E it \in store : it.session_id = req[p].session_id

(***************************************************************************)
(* The envelope of lambda_handler                                          *)
(***************************************************************************)
SuccessEnvelope(r) ==
    /\ r.result.statusCode = 200
    /\ {"response", "agent", "sessionId", "timestamp", "source"} \subseteq DOMAIN r.result.body
    /\ "error" \notin DOMAIN r.result.body
    /\ r.result.body["response"] # PyNone
    /\ r.result.body["agent"] \in Agents
    /\ r.result.body["sessionId"] = r.session_id

ClientError(r) ==
    /\ r.result.statusCode = 400
    /\ r.result.body = [error |-> "Message is required"]

ServerError(r) ==
    /\ r.result.statusCode = 500
    /\ r.result.body = [error |-> "Internal server error",
                        message |-> "Failed to process agent request"]

\* the steps a request of the router can be at, each with its action
HandlerSteps ==
    {"idle", "select", "document", "refine", "knowledge", "agentcore", "foundation",
     "context", "model", "save_user", "save_assistant", "done"}

\* C17: lambda_handler always returns one complete envelope: a 200 success
\* envelope with response, agent, sessionId, timestamp and source, the 400
\* client error, or the generic 500; until it returns there is no envelope
\* and it is never stuck, and a fault in the orchestration gives the 500.
C17_AlwaysOneCompleteEnvelope ==
    \A p \in Procs :
        LET r == req[p]
        IN  /\ r.pc \in HandlerSteps
            /\ r.pc = "agentcore" => IsEcrRuntime(r.selected_agent)
            /\ r.pc # "done" => r.result = NoEnvelope
            /\ Done(p) => SuccessEnvelope(r) \/ ClientError(r) \/ ServerError(r)
            /\ (Done(p) /\ r.body \in {"garbage", "nondict"}) => ServerError(r)

\* a body that is not a JSON object was answered with the generic 500
C17_Witness ==
    \E p \in Procs : Done(p) /\ req[p].body = "nondict" /\ ServerError(req[p])

(***************************************************************************)
(* Failures of the store                                                   *)
(***************************************************************************)
\* the specialist a path answers as
AnsweringAgent(r) ==
    CASE r.path = "document"  -> DOCUMENT
      [] r.path = "knowledge" -> KNOWLEDGE
      [] OTHER                -> r.selected_agent

\* C18: whether or not the writes of the turn succeed, the request returns
\* the 200 envelope with the response text and the agent it had before the
\* writes.
C18_WriteFailureNonFatal ==
    \A p \in Procs :
        (Done(p) /\ req[p].writes > 0)
        => LET r == req[p]
           IN  /\ r.writes = 2
               /\ SuccessEnvelope(r)
               /\ r.result.body["response"] = r.response_text
               /\ r.result.body["agent"] = AnsweringAgent(r)

\* both writes of a turn failed on the document path and the answer was
\* returned
C18_Witness ==
    \E p \in Procs :
        /\ Done(p) /\ req[p].writes = 2 /\ req[p].saved = {}
        /\ req[p].path = "document"
        /\ req[p].result.statusCode = 200
        /\ req[p].result.body["response"] = "Jane Citizen"
        /\ store \in EarlierStores

\* C19: when the history lookup of select_agent fails and there is no
\* hint, the decision is the keyword classification of the message,
\* whatever the session holds, and the request is answered.
C19_ReadFailureIsEmptyHistory ==
    \A p \in Procs :
        LET r == req[p]
        IN  (Selected(p) /\ r.agent_type = PyNone /\ ~r.read_ok)
            => /\ r.selected_agent = RefClassify(r.message)
               /\ r.history = <<>>
               /\ Done(p) => r.result.statusCode = 200

\* the lookup failed for a session whose last specialist would have been
\* kept, and the keywords decided
C19_Witness ==
    \E p \in Procs :
        /\ Done(p) /\ req[p].agent_type = PyNone /\ ~req[p].read_ok
        /\ req[p].reads >= 1
        /\ RefContinuity(req[p].session_id, req[p].message)
        /\ RefLastAgent(req[p].session_id) = COMMUNITY
        /\ req[p].selected_agent = APPOINTMENT

(***************************************************************************)
(* Decision and backend family                                             *)
(***************************************************************************)
\* C20: the document backend is called exactly for the decision
\* document-agent, the knowledge backend exactly for knowledge-agent, and
\* for the three other decisions the specialist/foundation-model family
\* answers, no dedicated backend is called and the response names the
\* decision.
C20_FamilyFollowsDecision ==
    \A p \in Procs :
        (Done(p) /\ Selected(p))
        => LET r == req[p]
           IN  /\ r.doc_calls >= 1 <=> r.selected_agent = DOCUMENT
               /\ r.know_calls >= 1 <=> r.selected_agent = KNOWLEDGE
               /\ r.selected_agent \in {HEALTH, APPOINTMENT, COMMUNITY}
                  => /\ CalledSpecialist(r)
                     /\ Get(r.result.body, "agent") = r.selected_agent

(***************************************************************************)
(* Termination and the number of backend invocations                       *)
(***************************************************************************)
\* the steps a request at pc can still take before it returns
StepsLeft(pc) ==
    CASE pc = "idle"           -> 7
      [] pc = "select"         -> 6
      [] pc = "foundation"     -> 5
      [] pc = "context"        -> 4
      [] pc = "document"       -> 4
      [] pc = "model"          -> 3
      [] pc = "refine"         -> 3
      [] pc = "knowledge"      -> 3
      [] pc = "save_user"      -> 2
      [] pc = "save_assistant" -> 1
      [] pc = "agentcore"      -> 1
      [] pc = "done"           -> 0

\* the backend invocations of a request, by path
BackendCalls(r) == r.doc_calls + r.know_calls + r.primary_calls + r.fallback_calls

CallsWithinBound(r) ==
    /\ BackendCalls(r) <= 2
    /\ r.primary_calls <= 1 /\ r.fallback_calls <= 1
    /\ r.doc_calls <= 2 /\ r.know_calls <= 1
    /\ r.doc_calls > 0 => r.doc_calls = BackendCalls(r)
    /\ r.know_calls > 0 => r.know_calls = BackendCalls(r)

\* C21: every request returns after a bounded number of steps (each step
\* of a request brings it nearer to its return, there is no retry loop), and
\* it makes at most 2 backend invocations: primary and fallback on the
\* specialist path, the first call and one refinement on the document path,
\* one call on the knowledge path.
C21_BoundedCallsAndTermination ==
    [][\A p \in Procs :
          req'[p] # req[p] =>
              /\ StepsLeft(req'[p].pc) < StepsLeft(req[p].pc)
              /\ CallsWithinBound(req'[p])]_vars

\* a request returned after the two calls of the document path
C21_Witness ==
    \E p \in Procs : Done(p) /\ req[p].doc_calls = 2 /\ BackendCalls(req[p]) = 2

(***************************************************************************)
(* rewrite_document_question as a function of the question and the intent, *)
(* and composed with detect_document_qa_intent as lines 209-210 compose     *)
(* them.                                                                   *)
(***************************************************************************)
RewriteMessages ==
    Messages \cup {"who issued this report", "Who signed the letter?",
                   "What date was it signed?", "for whom is it"}

\* Optional[str]: None, the empty string, the four intents, another string
RewriteIntents == {PyNone, "", "recipient", "issuer", "signatory", "date", "other"}

InitRewrite ==
    /\ store = {}
    /\ clock = StartClock
    /\ AGENTCORE_AVAILABLE = FALSE
    /\ req \in {[p \in Procs |-> [IdleReq EXCEPT !.message = m, !.qa_intent = i]] :
                   m \in RewriteMessages, i \in RewriteIntents}
    /\ agentOut = NoAgentOut

\* rewrite_document_question(original, intent)
Rewrite(p) ==
    /\ req[p].pc = "idle"
    /\ Set(p, [req[p] EXCEPT !.pc = "rewritten",
                             !.context = rewrite_document_question(req[p].message, req[p].qa_intent)])
    /\ UNCHANGED <<store, clock, AGENTCORE_AVAILABLE, agentOut>>

\* lines 209-210
DetectAndRewrite(p) ==
    /\ req[p].pc = "idle"
    /\ LET qa_intent == detect_document_qa_intent(req[p].message)
       IN  Set(p, [req[p] EXCEPT !.pc = "detected", !.qa_intent = qa_intent,
                                 !.context = rewrite_document_question(req[p].message, qa_intent)])
    /\ UNCHANGED <<store, clock, AGENTCORE_AVAILABLE, agentOut>>

\* lines 209-210 applied to the output they gave for a message in which they
\* detected no sub-intent
RewriteAgain(p) ==
    /\ req[p].pc = "detected"
    /\ req[p].qa_intent = PyNone
    /\ LET original == req[p].context
       IN  Set(p, [req[p] EXCEPT !.pc = "again",
                                 !.response_text =
                                     rewrite_document_question(original,
                                                               detect_document_qa_intent(original))])
    /\ UNCHANGED <<store, clock, AGENTCORE_AVAILABLE, agentOut>>

NextRewrite ==
    \/ \E p \in Procs : Rewrite(p)
    \/ \E p \in Procs : DetectAndRewrite(p)
    \/ \E p \in Procs : RewriteAgain(p)

SpecRewrite == InitRewrite /\ [][NextRewrite]_vars

\* C22: the rewritten question starts with the original message unchanged,
\* and it is the original message exactly when no sub-intent was detected;
\* rewriting a message without sub-intent a second time changes nothing.
C22_RewriteKeepsOriginalInFront ==
    \A p \in Procs :
        LET r == req[p]
        IN  /\ r.pc \in {"rewritten", "detected", "again"} =>
                  /\ StartsWith(r.context, r.message)
                  /\ (r.context = r.message) <=> Falsy(r.qa_intent)
            /\ r.pc \in {"detected", "again"} =>
                  r.qa_intent \in {PyNone, "recipient", "issuer", "signatory", "date"}
            /\ (r.pc = "again" /\ r.qa_intent = PyNone) => r.response_text = r.message

\* a question about the issuer was rewritten with the guidance behind it
C22_Witness ==
    \E p \in Procs :
        /\ req[p].pc = "detected"
        /\ req[p].message = "who issued this report"
        /\ req[p].qa_intent = "issuer"
        /\ req[p].context # req[p].message
        /\ StartsWith(req[p].context, "who issued this report\n\nSTRICT INSTRUCTIONS: Identify the organization")

(***************************************************************************)
(* Keyword classification                                                  *)
(***************************************************************************)
\* select_agent came to its keyword scoring: no hint, and no continuity
\* (the history could not be read, or names no specialist, or the message is
\* neither an acknowledgment nor short)
KeywordsDecide(r) ==
    /\ r.agent_type = PyNone
    /\ ~Falsy(r.message)
    /\ ~r.read_ok \/ ~RefContinuity(r.session_id, r.message)

\* C23: without a hint and without continuity, the decision of select_agent
\* is the specialist with the most keywords occurring in the lower-cased
\* message, the first in the order health, appointment, community, document,
\* knowledge on a tie, and the health assistant when no keyword occurs.
C23_KeywordClassification ==
    \A p \in Procs :
        (Selected(p) /\ KeywordsDecide(req[p]))
        => req[p].selected_agent = RefClassify(req[p].message)

\* a tie between document and knowledge went to document
C23_Witness ==
    \E p \in Procs :
        /\ Selected(p) /\ KeywordsDecide(req[p])
        /\ req[p].message = "audit report"
        /\ RefScores["audit report"][DOCUMENT] = 1
        /\ RefScores["audit report"][KNOWLEDGE] = 1
        /\ req[p].selected_agent = DOCUMENT

(***************************************************************************)
(* The refinement of the document path                                     *)
(***************************************************************************)
\* the request asked the document backend a second time
Refined(r) == r.path = "document" /\ r.reply1 # 0 /\ r.reply2 # 0

\* the text a refined request owes its caller: the second answer when the
\* second call returned one, the first answer otherwise
RefinedText(r) ==
    IF AnswerReply(BackendReplies[r.reply2])
    THEN BackendReplies[r.reply2].inner["response"]
    ELSE BackendReplies[r.reply1].inner["response"]

RECURSIVE Reverse(_)
Reverse(seq) == IF seq = <<>> THEN <<>> ELSE Reverse(Tail(seq)) \o <<Head(seq)>>

FirstN(seq, n) == SubSeq(seq, 1, IF Len(seq) < n THEN Len(seq) ELSE n)

\* lines 465-472: the query on the user's index
QueryByUser(table, user_id, limit) ==
    FirstN(Reverse(SortByTimestamp({it \in table : it.user_id = user_id})), limit)

\* msg['content'][:100] + "..." if len(msg['content']) > 100 else msg['content']
PreviewOf(content) ==
    IF Len(content) > 100 THEN SubSeq(content, 1, 100) \o "..." ELSE content

\* strftime('%Y-%m-%d %H:%M') of the timestamp: the minute it falls in
LastActivity(timestamp) == Seconds(timestamp) \div 60

\* lines 475-499: the loop over the fetched messages; sessions is the dict
RECURSIVE GroupSessions(_, _)
GroupSessions(messages, sessions) ==
    IF messages = <<>> THEN sessions
    ELSE LET msg        == Head(messages)
             session_id == msg.session_id
             known      == session_id \in DOMAIN sessions
         IN  IF ~known \/ msg.timestamp > sessions[session_id].last_message_time
             THEN LET kept    == IF msg.role = "user" THEN PreviewOf(msg.content)
                                 ELSE IF known THEN sessions[session_id].preview
                                 ELSE ""
                      preview == IF kept = "" /\ msg.role = "assistant"
                                 THEN PreviewOf(msg.content) ELSE kept
                      entry   == [session_id        |-> session_id,
                                  last_message_time |-> msg.timestamp,
                                  preview           |-> preview,
                                  agent_type        |-> IF msg.agent_type = PyNone THEN HEALTH
                                                        ELSE msg.agent_type,
                                  last_activity     |-> LastActivity(msg.timestamp)]
                  IN  GroupSessions(Tail(messages), (session_id :> entry) @@ sessions)
             ELSE GroupSessions(Tail(messages), sessions)

\* lines 502-503: the summaries, most recent first
RECURSIVE SortSessions(_)
SortSessions(summaries) ==
    IF summaries = {} THEN <<>>
    ELSE LET first == CHOOSE e \in summaries :
                         \A o \in summaries : o.last_message_time <= e.last_message_time
         IN  <<first>> \o SortSessions(summaries \ {first})

\* get_user_recent_chats; ok = FALSE when the store raises
get_user_recent_chats(table, user_id, max_sessions, ok) ==
    IF ~ok THEN <<>>
    ELSE LET sessions == GroupSessions(QueryByUser(table, user_id, 100), <<>>)
         IN  FirstN(SortSessions({sessions[k] : k \in DOMAIN sessions}), max_sessions)

\* get_recent_chats_handler
get_recent_chats_handler(p, user_id, ok) ==
    /\ req[p].pc = "idle"
    /\ LET r == [req[p] EXCEPT !.pc = "done", !.path = "recent_chats",
                               !.user_id = user_id, !.before = store]
           recent_chats == get_user_recent_chats(store, user_id, 20, ok)
       IN  IF Falsy(user_id) \/ user_id = "anonymous"
           THEN Set(p, [r EXCEPT !.result =
                            Envelope(400, [error |-> "User ID is required for recent chats"])])
           ELSE Set(p, [r EXCEPT !.reads = @ + 1, !.read_ok = ok,
                                 !.history = recent_chats,
                                 !.result = Envelope(200, [count |-> ToString(Len(recent_chats))])])
    /\ UNCHANGED <<store, clock, AGENTCORE_AVAILABLE, agentOut>>

\* a question longer than a preview
LongQuestion ==
    "I need to schedule a dentist appointment tomorrow and I also want to know "
    \o "which documents I should bring along to the clinic"

\* the tables: turns of two users in four sessions, a session with only the
\* user's message (the assistant's was not saved) and one with only the
\* assistant's
ChatStores ==
    LET parts == << Turn("s1", "u1", HEALTH, 1),
                    Turn("s2", "u1", APPOINTMENT, 3),
                    Turn("s2", "u2", COMMUNITY, 5),
                    {Item("s3", "u1", "user", LongQuestion, PyNone, 7)},
                    {Item("s4", "u1", "assistant", "model answer", HEALTH, 8)},
                    Turn("s1", "u1", COMMUNITY, 9) >>
    IN  {UNION {parts[k] : k \in ks} : ks \in SUBSET (1..Len(parts))}

InitChats ==
    /\ store \in ChatStores
    /\ clock = 11
    /\ AGENTCORE_AVAILABLE = FALSE
    /\ req = [p \in Procs |-> IdleReq]
    /\ agentOut = NoAgentOut

NextChats ==
    \E p \in Procs, u \in ApiUserIds, ok \in BOOLEAN : get_recent_chats_handler(p, u, ok)

SpecChats == InitChats /\ [][NextChats]_vars

\* the messages of the user that the query fetched
FetchedFor(table, user_id) == {it \in table : it.user_id = user_id}

\* C25: the recent chats of a user hold one summary per session among the
\* user's fetched messages, and the preview of a session that has a message
\* written by the user among them is derived from such a message; the
\* preview comes from an assistant message only when the session has none.
C25_PreviewPrefersUserMessage ==
    \A p \in Procs :
        (Done(p) /\ req[p].path = "recent_chats" /\ req[p].result.statusCode = 200 /\ req[p].read_ok)
        => LET r       == req[p]
               fetched == FetchedFor(r.before, r.user_id)
               of(sid) == {it \in fetched : it.session_id = sid}
           IN  /\ {r.history[i].session_id : i \in 1..Len(r.history)}
                     = {it.session_id : it \in fetched}
               /\ \A i, j \in 1..Len(r.history) :
                     r.history[i].session_id = r.history[j].session_id => i = j
               /\ \A i \in 1..Len(r.history) :
                     LET mine  == of(r.history[i].session_id)
                         users == {it \in mine : it.role = "user"}
                     IN  \E it \in (IF users # {} THEN users ELSE mine) :
                            r.history[i].preview = PreviewOf(it.content)

(***************************************************************************)
(* The context given to the foundation model, for sessions with up to      *)
(* MaxHistory stored messages                                              *)
(***************************************************************************)
MaxHistory == 12

\* an answer longer than the 200 characters rendered of a message
LongAnswer == LongQuestion \o ". " \o LongQuestion

\* the table after n messages of session s1: turns of u1, answered by the
\* health assistant, each message with its own content
History(n) ==
    {Item("s1", "u1", IF t % 2 = 1 THEN "user" ELSE "assistant",
          IF t = 10 THEN LongAnswer ELSE "message " \o ToString(t),
          IF t % 2 = 1 THEN PyNone ELSE HEALTH, t) : t \in 1..n}

ContextEvents ==
    {Event("object", m, "u1", sid, PyNone) :
        m \in {"i feel sick", "tell me a story about cats and dogs"}, sid \in {"s1", "s2"}}

ContextOutcomes == {1, 2, 4}

InitContext ==
    /\ store \in {History(n) : n \in 0..MaxHistory}
    /\ clock = MaxHistory + 1
    /\ AGENTCORE_AVAILABLE = FALSE
    /\ req = [p \in Procs |-> IdleReq]
    /\ agentOut = NoAgentOut

NextContext ==
    \/ \E p \in Procs, ev \in ContextEvents : ParseEvent(p, ev)
    \/ \E p \in Procs, ok \in BOOLEAN : SelectAgent(p, ok)
    \/ \E p \in Procs, ok \in BOOLEAN : FoundationHistory(p, ok)
    \/ \E p \in Procs, ok \in BOOLEAN : FoundationContext(p, ok)
    \/ \E p \in Procs, i \in ContextOutcomes : FoundationInvoke(p, i)
    \/ \E p \in Procs, ok \in BOOLEAN : SaveUser(p, ok)
    \/ \E p \in Procs, ok \in BOOLEAN : SaveAssistant(p, ok)

SpecContext == InitContext /\ [][NextContext]_vars

\* the n most recent messages of a session
MostRecent(table, session_id, n) ==
    LET mine == {it \in table : it.session_id = session_id}
    IN  {it \in mine : Cardinality({o \in mine : o.timestamp > it.timestamp}) < n}

\* the transcript of a set of messages, oldest first, one labeled line each
RECURSIVE Transcript(_)
Transcript(items) ==
    IF items = {} THEN ""
    ELSE LET oldest == CHOOSE it \in items : \A o \in items : it.timestamp <= o.timestamp
             label  == IF oldest.role = "user" THEN "User: " ELSE "Assistant: "
             body   == IF Len(oldest.content) > 200
                       THEN SubSeq(oldest.content, 1, 200) \o "..." ELSE oldest.content
         IN  "\n" \o label \o body \o Transcript(items \ {oldest})

\* the context owed for a message: the message itself without history,
\* else the transcript of the 6 most recent of the 10 most recent messages
\* followed by the message
RefContext(table, session_id, message, read) ==
    LET fetched == IF read THEN MostRecent(table, session_id, 10) ELSE {}
        shown   == {it \in fetched : Cardinality({o \in fetched : o.timestamp > it.timestamp}) < 6}
    IN  IF fetched = {} THEN message
        ELSE "Previous conversation:" \o Transcript(shown)
                 \o "\n\nCurrent message:\nUser: " \o message

\* C26: the context renders the 6 most recent of the at most 10 most recent
\* messages fetched for the session, oldest first, followed by the current
\* message; without stored history, or when the read fails, it is exactly
\* the current message.
C26_ContextIsLastSixThenMessage ==
    [][\A p \in Procs, ok \in BOOLEAN :
          FoundationContext(p, ok) =>
              /\ req'[p].context = RefContext(store, req[p].session_id, req[p].message, ok)
              /\ (~ok \/ MostRecent(store, req[p].session_id, 10) = {})
                     => req'[p].context = req[p].message]_vars

\* the context of a session with more than 10 messages: it starts at the
\* sixth most recent one
C26_Witness ==
    \E p \in Procs :
        /\ req[p].pc = "model"
        /\ req[p].session_id = "s1"
        /\ Cardinality(store) = MaxHistory
        /\ StartsWith(req[p].context,
                      "Previous conversation:\nUser: message " \o ToString(MaxHistory - 5) \o "\n")

(***************************************************************************)
(* Concurrent requests on different sessions: invocation 1 on session s1,  *)
(* invocation 2 on session s2, on a table that holds earlier turns.        *)
(***************************************************************************)
SessionOf(p) == IF p = 1 THEN "s1" ELSE "s2"

SessionStores ==
    {{}, Turn("s1", "u1", COMMUNITY, 1),
     Turn("s1", "u1", COMMUNITY, 1) \cup Turn("s2", "u1", APPOINTMENT, 3)}

SessionEvents(p) ==
    {Event("object", m, "u1", SessionOf(p), PyNone) : m \in {"sure", "ndis compliance audit"}}

InitSessions ==
    /\ store \in SessionStores
    /\ clock = StartClock
    /\ AGENTCORE_AVAILABLE = FALSE
    /\ req = [p \in ConcProcs |-> IdleReq]
    /\ agentOut = NoAgentOut

NextSessions ==
    \/ \E p \in ConcProcs : \E ev \in SessionEvents(p) : ParseEvent(p, ev)
    \/ \E p \in ConcProcs, ok \in BOOLEAN : SelectAgent(p, ok)
    \/ \E p \in ConcProcs, i \in ConcReplies : KnowInvoke(p, i)
    \/ \E p \in ConcProcs, ok \in BOOLEAN : FoundationHistory(p, ok)
    \/ \E p \in ConcProcs, ok \in BOOLEAN : FoundationContext(p, ok)
    \/ \E p \in ConcProcs, i \in ConcOutcomes : FoundationInvoke(p, i)
    \/ \E p \in ConcProcs : ReadNow(p)
    \/ \E p \in ConcProcs, ok \in BOOLEAN : PutUser(p, ok)
    \/ \E p \in ConcProcs, ok \in BOOLEAN : PutAssistant(p, ok)

SpecSessions == InitSessions /\ [][NextSessions]_vars

\* what a request run alone decides from the history of its own session
AloneDecision(r) ==
    IF r.read_ok /\ RefContinuity(r.session_id, r.message)
    THEN RefLastAgent(r.session_id)
    ELSE RefClassify(r.message)

\* what a request run alone answers, given the reply of its own backend
AloneAnswer(r) ==
    CASE r.path = "knowledge" ->
            IF BackendReplies[r.reply1].raise THEN KNOW_FALLBACK_TEXT
            ELSE IF AnswerReply(BackendReplies[r.reply1])
                 THEN BackendReplies[r.reply1].inner["response"]
                 ELSE "Here is the regional guidance."
      [] OTHER -> FoundationText(ModelOutcomes[r.fallback]).text

\* C27: two concurrent requests on different sessions do not interfere: each
\* reads only messages of its own session (those stored before it), decides
\* and answers as it would alone, and the table gains for its session
\* exactly the messages it saved, every earlier message staying in place.
C27_SessionsDoNotInterfere ==
    \A p \in ConcProcs :
        LET r == req[p]
            mine == {it \in store : it.session_id = SessionOf(p)}
        IN  /\ \A i \in 1..Len(r.history) :
                  /\ r.history[i].session_id = r.session_id
                  /\ r.history[i].timestamp < StartClock
            /\ (Selected(p) /\ r.read_ok) => Len(r.history) = Cardinality(StoredBefore(r.session_id))
            /\ Selected(p) => r.selected_agent = AloneDecision(r)
            /\ r.pc \in {"model", "save_user", "save_assistant", "done"} /\ r.path = "foundation"
                  => r.context \in {r.message,
                                    RefContext(StoredBefore(r.session_id), r.session_id, r.message, TRUE)}
            /\ Cardinality({it \in mine : it.timestamp >= StartClock}) = Cardinality(r.saved)
            /\ \A it \in mine : it.timestamp >= StartClock =>
                  \/ it.role = "user" /\ it.content = r.message
                  \/ it.role = "assistant" /\ it.content = r.response_text
            /\ Cardinality({it \in store : it.timestamp < StartClock}) \in {0, 2, 4}
            /\ (Done(p) /\ r.result.statusCode = 200) =>
                  /\ Get(r.result.body, "sessionId") = SessionOf(p)
                  /\ Get(r.result.body, "agent") = AnsweringAgent(r)
                  /\ Get(r.result.body, "response") = AloneAnswer(r)

\* request 1 continued with the specialist of its session while request 2
\* was writing: a message of session s2 lies between the two it saved
C27_Witness ==
    /\ Done(1) /\ Done(2)
    /\ req[1].selected_agent = COMMUNITY /\ req[1].message = "sure"
    /\ req[1].saved = {"user", "assistant"} /\ req[2].saved = {"user", "assistant"}
    /\ \E a, b, c \in store :
          /\ a.session_id = "s1" /\ c.session_id = "s1" /\ b.session_id = "s2"
          /\ StartClock <= a.timestamp /\ a.timestamp < b.timestamp /\ b.timestamp < c.timestamp

(***************************************************************************)
(* The envelope of the dedicated backends when the body of the backend     *)
(* carries fields named like the router's                                  *)
(***************************************************************************)
PassThroughEvents ==
    {Event("object", m, "u1", "s1", PyNone) :
        m \in {"Who is this document for?", "ndis compliance audit",
               "show my compliance audit documents"}}

\* an answer naming an organization, and the replies that use the router's
\* field names
PassThroughIndexes == {10} \cup (Len(BackendReplies) + 1)..Len(AllReplies)

InitPassThrough ==
    /\ store \in {{}, Turn("s2", "u1", COMMUNITY, 1)}
    /\ clock = StartClock
    /\ AGENTCORE_AVAILABLE \in BOOLEAN
    /\ req = [p \in Procs |-> IdleReq]
    /\ agentOut = NoAgentOut

NextPassThrough ==
    \/ \E p \in Procs, ev \in PassThroughEvents : ParseEvent(p, ev)
    \/ \E p \in Procs, ok \in BOOLEAN : SelectAgent(p, ok)
    \/ \E p \in Procs, i \in PassThroughIndexes : DocInvoke(p, i)
    \/ \E p \in Procs, i \in PassThroughIndexes : DocRefine(p, i)
    \/ \E p \in Procs, i \in PassThroughIndexes : KnowInvoke(p, i)
    \/ \E p \in Procs, ok \in BOOLEAN : SaveUser(p, ok)
    \/ \E p \in Procs, ok \in BOOLEAN : SaveAssistant(p, ok)

SpecPassThrough == InitPassThrough /\ [][NextPassThrough]_vars

\* the source tag the router sets on a path
RouterSource(r) ==
    CASE r.path = "document"  -> {"document-agent-lambda", "fallback"}
      [] r.path = "knowledge" -> {"knowledge-agent-lambda", "fallback"}
      [] OTHER                -> {}

\* C28: in a 200 response of the document or knowledge path the fields the
\* router sets are its own whatever the body of the backend contains:
\* sessionId is the session of the request, agent the specialist it was
\* dispatched to, source the tag of the router.
C28_RouterFieldsNotOverwritten ==
    \A p \in Procs :
        (Done(p) /\ req[p].path \in {"document", "knowledge"} /\ req[p].result.statusCode = 200)
        => LET r == req[p]
           IN  /\ Get(r.result.body, "sessionId") = r.session_id
               /\ Get(r.result.body, "agent") = AnsweringAgent(r)
               /\ Get(r.result.body, "source") \in RouterSource(r)

(***************************************************************************)
(* A session that holds messages of several users                          *)
(***************************************************************************)
UserStores ==
    {{},
     Turn("s1", "u2", COMMUNITY, 1),
     Turn("s1", "u1", APPOINTMENT, 1) \cup Turn("s1", "u2", COMMUNITY, 3),
     Turn("s1", "u2", COMMUNITY, 1) \cup Turn("s1", "u1", APPOINTMENT, 3)}

UserEvents ==
    {Event("object", m, "u1", "s1", PyNone) :
        m \in {"sure", "i feel sick", "tell me a story about cats and dogs"}}

UserOutcomes == {1, 2, 4}

InitUsers ==
    /\ store \in UserStores
    /\ clock = StartClock
    /\ AGENTCORE_AVAILABLE = FALSE
    /\ req = [p \in Procs |-> IdleReq]
    /\ agentOut = NoAgentOut

NextUsers ==
    \/ \E p \in Procs, ev \in UserEvents : ParseEvent(p, ev)
    \/ \E p \in Procs, ok \in BOOLEAN : SelectAgent(p, ok)
    \/ \E p \in Procs, ok \in BOOLEAN : FoundationHistory(p, ok)
    \/ \E p \in Procs, ok \in BOOLEAN : FoundationContext(p, ok)
    \/ \E p \in Procs, i \in UserOutcomes : FoundationInvoke(p, i)
    \/ \E p \in Procs, ok \in BOOLEAN : SaveUser(p, ok)
    \/ \E p \in Procs, ok \in BOOLEAN : SaveAssistant(p, ok)

SpecUsers == InitUsers /\ [][NextUsers]_vars

\* the messages the requesting user had in the session when the request
\* arrived
OwnBefore(r) == {it \in StoredBefore(r.session_id) : it.user_id = r.user_id}

\* lastAgent among the user's own last 4 messages of the session
OwnLastAgent(r) ==
    LET mine   == OwnBefore(r)
        last4  == {it \in mine : Cardinality({o \in mine : o.timestamp > it.timestamp}) <= 3}
        tagged == {it \in last4 : it.role = "assistant" /\ it.agent_type # PyNone}
    IN  IF tagged = {} THEN PyNone
        ELSE (CHOOSE it \in tagged : \A o \in tagged : o.timestamp <= it.timestamp).agent_type

\* C29: the history a chat request uses holds only messages of the
\* requesting user: the continuity decision and the context are those the
\* user's own messages of the session give, whatever other users stored.
C29_HistoryOnlyOwnMessages ==
    \A p \in Procs :
        LET r == req[p]
        IN  /\ \A i \in 1..Len(r.history) : r.history[i].user_id = r.user_id
            /\ (Selected(p) /\ r.agent_type = PyNone /\ r.read_ok) =>
                  r.selected_agent =
                      IF OwnLastAgent(r) \in Agents
                         /\ (RefAcknowledgment[r.message] \/ RefAtMostFiveWords[r.message])
                      THEN OwnLastAgent(r)
                      ELSE RefClassify(r.message)
            /\ r.pc \in {"model", "save_user", "save_assistant", "done"} /\ r.path = "foundation"
                  => r.context \in {r.message,
                                    RefContext(OwnBefore(r), r.session_id, r.message, TRUE)}

(***************************************************************************)
(* Concurrent requests that carry no sessionId: line 961 generates one     *)
(* from the clock.                                                         *)
(***************************************************************************)
AnonEvents(p) ==
    {Event("object", m, IF p = 1 THEN "u1" ELSE "u2", PyNone, PyNone) :
        m \in {"sure", "ndis compliance audit"}}

InitAnon ==
    /\ store = {}
    /\ clock = StartClock
    /\ AGENTCORE_AVAILABLE = FALSE
    /\ req = [p \in ConcProcs |-> IdleReq]
    /\ agentOut = NoAgentOut

NextAnon ==
    \/ \E p \in ConcProcs : \E ev \in AnonEvents(p) : ParseEvent(p, ev)
    \/ \E p \in ConcProcs, ok \in BOOLEAN : SelectAgent(p, ok)
    \/ \E p \in ConcProcs, i \in ConcReplies : KnowInvoke(p, i)
    \/ \E p \in ConcProcs, ok \in BOOLEAN : FoundationHistory(p, ok)
    \/ \E p \in ConcProcs, ok \in BOOLEAN : FoundationContext(p, ok)
    \/ \E p \in ConcProcs, i \in ConcOutcomes : FoundationInvoke(p, i)
    \/ \E p \in ConcProcs : ReadNow(p)
    \/ \E p \in ConcProcs, ok \in BOOLEAN : PutUser(p, ok)
    \/ \E p \in ConcProcs, ok \in BOOLEAN : PutAssistant(p, ok)

SpecAnon == InitAnon /\ [][NextAnon]_vars

\* C30: two requests without sessionId get different generated session
\* ids, also when they arrive in the same second, and each starts a session
\* of its own: it finds no history.
C30_GeneratedSessionsDiffer ==
    /\ (req[1].pc # "idle" /\ req[2].pc # "idle") => req[1].session_id # req[2].session_id
    /\ \A p \in ConcProcs : Selected(p) => req[p].history = <<>>

====
